---- MODULE Spec2Model ----
(***************************************************************************)
(* A model of iscript/mac.py: the mac signing / notarization pipeline.     *)
(*                                                                         *)
(* Spec      the workflows (sign, sign_and_pkg, notarize, notarize_1,      *)
(*           notarize_3, geckodriver) as stages over a batch of App        *)
(*           records; a unit of a stage is one future of that stage.       *)
(* SpecSign  sign_app on one bundle: the walk of its Contents/ directory   *)
(*           and the codesign commands it issues, one command per step.    *)
(* SpecUuid  get_uuid_from_log on one response text.                       *)
(* SpecPoll  poll_notarization_uuid on one identifier, with a clock.       *)
(* SpecPath  the publish path tar_apps, copy_pkgs_to_artifact_dir and      *)
(*           copy_xpis_to_artifact_dir derive for one record.              *)
(* SpecDir   set_app_path_and_name / get_app_dir on one record whose       *)
(*           parent_dir changes between the calls.                         *)
(* SpecBatch the paths the stages derive for the records of a batch.       *)
(* SpecPkg   create_pkg_files: the pkgbuild futures and their semaphore.   *)
(* SpecRetry one external command at its call site, with its retries.      *)
(* SpecVerify sign_all_apps from its signing loop on: the sign_app         *)
(*           futures, the verify_app_signature futures and their joins.    *)
(* SpecLive  Spec under a scheduler that goes on, for termination.         *)
(* SpecLog   the notarization commands and the commands handed to the      *)
(*           logger, in two runs that differ in the password.              *)
(***************************************************************************)
EXTENDS Integers, Sequences, FiniteSets, TLC

\* ------------------------------------------------------------------ bounds
MaxRecords == 2
MaxAccounts == 2
MaxNest == 2
MaxLen == 5
MaxTimeout == 40
MaxPollTime == 2
MaxLag == 1
MaxStart == 1
MaxSegs == 4
MaxCalls == 3
MaxPkgs == 3
MaxLimit == 2

\* ------------------------------------------------------------- the records
\* An upstream artifact as get_app_paths sees it: the suffix of its path and
\* its formats.
Kinds ==
    { [suffix |-> "tar.gz", formats |-> {}],
      [suffix |-> "dmg",    formats |-> {}],
      [suffix |-> "tgz",    formats |-> {}],
      [suffix |-> "tar.gz", formats |-> {"autograph_omnija", "autograph_widevine"}],
      [suffix |-> "pkg",    formats |-> {}],
      [suffix |-> "zip",    formats |-> {"macapp_entitlements"}],
      [suffix |-> "xpi",    formats |-> {"autograph_langpack"}] }

Workflows == {"sign", "sign_and_pkg", "notarize", "notarize_1", "notarize_3", "geckodriver"}

StageNames ==
    { "langpack", "extract", "unlock_1", "keychain_1", "map_prep", "resolve",
      "omnija", "widevine", "unlock_sign", "sign_app", "verify", "unlock_2",
      "keychain_2", "pkg", "zip", "onezip", "submit", "submit_one", "uuid",
      "poll", "manifest", "staple_app", "tar", "staple_pkg", "copy_pkg",
      "set_pkg", "copy_xpi", "sign_geckodriver", "tar_geckodriver" }

UnitStates == {"idle", "scheduled", "running", "ok", "failed"}

NoDir == -1

VARIABLES
    wf,          \* the behavior that runs
    useMap,      \* map_file_inner_path is not None
    multi,       \* key_config["notarize_type"] == "multi_account"
    accounts,    \* len(config["local_notarization_accounts"])
    all_paths,   \* the App records of the task, in get_app_paths order
    app,         \* the mutable attributes of each App
    softlink,    \* records whose parent_dir holds the link to /Applications
    pc,          \* position of the behavior in its plan
    st,          \* "run" | "await" | "raised" | "finished"
    unit,        \* the state of each stage's futures, per record (0: the stage's own command)
    res,         \* the outcome of each stage: "pending" | "active" | "done" | "raised"
    counter,     \* wrap_notarization_with_sudo's counter
    account_of,  \* the account each record's submission was run as (0: none yet)
    workdir,     \* what each directory work_dir/<n> holds: "stale" (left by an earlier
                 \* task) | "empty" | "extracted" | "mixed" (extracted over stale content)
    keychain,    \* the signing keychain is unlocked, and the keychain search list
    poll_uuids,  \* the keys of the dict the submission returned, in insertion order
    manifest     \* the list dumped to uuid_manifest.json

wfVars == <<wf, useMap, multi, accounts, all_paths, app, softlink, pc, st, unit, res, counter,
            account_of, workdir, keychain, poll_uuids, manifest>>

\* sign_app on one bundle (SpecSign)
VARIABLES
    topOrder,    \* the directories under Contents/ of the outer bundle, as os.walk lists them
    nest,        \* nest[k]: the directory of bundle k's Contents/ that holds bundle k+1
    clearkey,    \* Contents/Resources/gmp-clearkey/0.1/libclearkey.dylib exists
    todo,        \* the commands sign_app issues on this bundle, in order
    ip,          \* how many of them have completed
    signSt       \* "run" | "done" | "raised"

signVars == <<topOrder, nest, clearkey, todo, ip, signSt>>

\* get_uuid_from_log on one response (SpecUuid)
VARIABLES
    readable,    \* open(log_path) succeeds
    contents,    \* the text of the log, a sequence of tokens
    outcome      \* what get_uuid_from_log returned or raised; "none" before the call

uuidVars == <<readable, contents, outcome>>

\* poll_notarization_uuid on one identifier (SpecPoll)
VARIABLES
    timeout,     \* key_config["notarization_poll_timeout"], in seconds
    start,       \* arrow.utcnow().timestamp at the call
    now,         \* the clock, in seconds
    polls,       \* the status calls made
    sleeps,      \* the asyncio.sleep calls made
    responses,   \* the status of the log after each status call
    lastCheck,   \* the clock at the latest deadline check that let the loop go on
                 \* (start before the first)
    pollSt,      \* "poll" | "sleep" | "success" | "invalid" | "failed" | "timeout"
    submit_start \* the clock when the behavior began to submit

pollVars == <<timeout, start, now, polls, sleeps, responses, lastCheck, pollSt, submit_start>>

\* the publish path of one record (SpecPath)
VARIABLES
    subpath,     \* the path of the upstream artifact, a sequence of tokens
    derived,     \* "none", or the function that derived the path
    target       \* the path it derived, or the exception it raised

pathVars == <<subpath, derived, target>>

\* set_app_path_and_name on one record (SpecDir)
VARIABLES
    wdir,        \* the entries of the record's parent_dir, as paths below it
    has_parent,  \* app.parent_dir is set
    rec_app_path,    \* app.app_path (<<>>: unset)
    rec_app_name,    \* app.app_name (<<>>: unset)
    globbed,     \* the entries of parent_dir when get_app_dir last listed it
    found,       \* what get_app_dir last returned or raised
    resolved,    \* how the latest call ended: "none" | "ok" | "UnknownAppDir" | "IScriptError"
    first_ok,    \* app_path and app_name after the first call that succeeded
    calls        \* the calls made

dirVars == <<wdir, has_parent, rec_app_path, rec_app_name, globbed, found, resolved, first_ok, calls>>

\* the paths the stages derive for the records of one batch (SpecBatch)
VARIABLES
    upstreamArtifacts,  \* the (taskId, subpath) of each record, in get_app_paths order
    written             \* per attribute, the path of each record once its stage derived it

batchVars == <<upstreamArtifacts, written>>

\* create_pkg_files on one batch (SpecPkg)
VARIABLES
    concurrency_limit,  \* config.get("concurrency_limit", 2)
    pkg,                \* the future of each record: "scheduled" (waits for the
                        \* semaphore) | "running" (pkgbuild runs) | "ok" | "failed"
    pkgSt               \* "call" | "await" | "done" | "raised"

pkgVars == <<concurrency_limit, pkg, pkgSt>>

\* one external command of a unit and its retries (SpecRetry)
VARIABLES
    command,     \* the call site that runs the command
    argvs,       \* the argument list of each invocation made so far
    retrySt      \* "run" | "ok" | "raised"

retryVars == <<command, argvs, retrySt>>

\* the signing and the verification of a batch of bundles (SpecVerify)
VARIABLES
    verify_mac_signature,  \* key_config.get("verify_mac_signature", True)
    with_map,              \* sign_all_apps_with_map runs, not sign_all_apps
    sign_futures,                \* the future of sign_app, per bundle
    verify_futures,              \* the future of verify_app_signature, per bundle
    verifySt,              \* "sign" | "verify" | "returned" | "raised" | "idle"
    archived               \* the behavior went on to tar_apps / create_pkg_files

verifyVars == <<verify_mac_signature, with_map, sign_futures, verify_futures, verifySt, archived>>

\* a notarization command and the command given to the logger, in two runs
\* that differ in the password only (SpecLog)
VARIABLES
    passwords,   \* the notarization password of run 1 and of run 2
    logCall,     \* what both runs share: the account, the zip or uuid, the bundle id
    exec_cmds,   \* the command each run executes
    log_cmds,    \* the command each run hands to the logger
    logSt        \* "call" | the function that built the commands | "idle"

logVars == <<passwords, logCall, exec_cmds, log_cmds, logSt>>

vars == <<wfVars, signVars, uuidVars, pollVars, pathVars, dirVars, batchVars, pkgVars, retryVars, verifyVars, logVars>>

\* what each specification leaves alone
notWf == <<signVars, uuidVars, pollVars, pathVars, dirVars, batchVars, pkgVars, retryVars, verifyVars, logVars>>
notSign == <<wfVars, uuidVars, pollVars, pathVars, dirVars, batchVars, pkgVars, retryVars, verifyVars, logVars>>
notUuid == <<wfVars, signVars, pollVars, pathVars, dirVars, batchVars, pkgVars, retryVars, verifyVars, logVars>>
notPoll == <<wfVars, signVars, uuidVars, pathVars, dirVars, batchVars, pkgVars, retryVars, verifyVars, logVars>>
notPath == <<wfVars, signVars, uuidVars, pollVars, dirVars, batchVars, pkgVars, retryVars, verifyVars, logVars>>
notDir == <<wfVars, signVars, uuidVars, pollVars, pathVars, batchVars, pkgVars, retryVars, verifyVars, logVars>>
notBatch == <<wfVars, signVars, uuidVars, pollVars, pathVars, dirVars, pkgVars, retryVars, verifyVars, logVars>>
notPkg == <<wfVars, signVars, uuidVars, pollVars, pathVars, dirVars, batchVars, retryVars, verifyVars, logVars>>
notRetry == <<wfVars, signVars, uuidVars, pollVars, pathVars, dirVars, batchVars, pkgVars, verifyVars, logVars>>
notVerify == <<wfVars, signVars, uuidVars, pollVars, pathVars, dirVars, batchVars, pkgVars, retryVars, logVars>>
notLog == <<wfVars, signVars, uuidVars, pollVars, pathVars, dirVars, batchVars, pkgVars, retryVars, verifyVars>>

\* ---------------------------------------------------------------- helpers
Min(S) == CHOOSE x \in S : \A y \in S : x <= y

Range(L) == {L[p] : p \in DOMAIN L}

AllIdx == [k \in 1..Len(all_paths) |-> k]

Suffix(i) == all_paths[i].suffix

HasFmt(i, fmt) == fmt \in all_paths[i].formats

\* the first position of list L whose record is in bad, the records that make
\* the loop raise; 0: none is
FirstBad(L, bad) ==
    LET ps == {p \in 1..Len(L) : L[p] \in bad}
    IN  IF ps = {} THEN 0 ELSE Min(ps)

\* the records of L the loop went through before it raised at position p
Before(L, p) == {L[q] : q \in 1..(IF p = 0 THEN Len(L) ELSE p - 1)}

\* the position of record i in list L
PosOf(L, i) == Min({p \in 1..Len(L) : L[p] = i})

\* a check that finds every attribute set
MissingNever(i, att) == FALSE

\* App.check_required_attrs: the attribute att of record i is unset
Missing(i, att) ==
    CASE att = "parent_dir" -> app[i].parent_dir = NoDir
      [] att = "app_path"   -> ~app[i].app_path
      [] att = "pkg_path"   -> ~app[i].pkg_path
      [] att = "zip_path"   -> ~app[i].zip_path
      [] OTHER              -> FALSE    \* orig_path, artifact_prefix: set by get_app_paths

MissingAny(i, required_attrs) == \E att \in required_attrs : Missing(i, att)

\* is_macapp_entitlements
is_macapp_entitlements(i) == HasFmt(i, "macapp_entitlements")

\* filter_apps(all_paths, fmt, inverted)
filter_apps(L, fmt, inverted) ==
    SelectSeq(L, LAMBDA i : IF inverted THEN ~HasFmt(i, fmt) ELSE HasFmt(i, fmt))

\* --------------------------------------------------- the lists of a behavior
\* all_paths left as get_app_paths gave it
AllPathsUnfiltered == AllIdx

\* all_paths once the langpacks have been signed and filtered out
NonLang == filter_apps(AllIdx, "autograph_langpack", TRUE)

LangpackApps == filter_apps(AllIdx, "autograph_langpack", FALSE)

\* signable_paths: all_paths without the entitlements artifact
Signable == filter_apps(NonLang, "macapp_entitlements", TRUE)

\* notarize_3_behavior's split of all_paths by suffix
AllXpiPaths == SelectSeq(AllIdx, LAMBDA i : Suffix(i) = "xpi")
AllPkgPaths == SelectSeq(AllIdx, LAMBDA i : Suffix(i) = "pkg")
AllAppPaths == SelectSeq(AllIdx, LAMBDA i : Suffix(i) \notin {"pkg", "xpi"})

\* the steps of sign_all_apps / sign_all_apps_with_map
SignSteps(map) ==
    (IF map THEN <<"map_prep">> ELSE <<>>)
    \o <<"resolve", "omnija", "widevine", "unlock_sign", "sign_app", "verify">>

\* a submission whose responses are not read for identifiers
SubmitStepsNoUuid(m) == IF m THEN <<"zip", "submit">> ELSE <<"onezip", "submit_one">>

\* the steps of the submission, by notarize_type
SubmitSteps(m) ==
    IF m THEN <<"zip", "submit", "uuid">> ELSE <<"onezip", "submit_one", "uuid">>

Prologue == <<"langpack", "extract", "unlock_1", "keychain_1">>

sign_behavior == Prologue \o SignSteps(useMap) \o <<"tar">>

sign_and_pkg_behavior ==
    Prologue \o SignSteps(useMap)
    \o <<"tar", "unlock_2", "keychain_2", "pkg", "copy_pkg">>

notarize_behavior ==
    Prologue \o SignSteps(useMap) \o <<"unlock_2", "keychain_2", "pkg">>
    \o SubmitSteps(multi)
    \o <<"poll", "staple_app", "tar", "staple_pkg", "copy_pkg">>

notarize_1_behavior ==
    Prologue \o SignSteps(useMap) \o <<"unlock_2", "keychain_2", "pkg">>
    \o SubmitSteps(multi) \o <<"manifest", "tar", "copy_pkg">>

notarize_3_behavior ==
    <<"extract", "resolve", "set_pkg", "staple_app", "tar", "staple_pkg",
      "copy_pkg", "copy_xpi">>

\* sign_geckodriver signs and archives record after record
geckodriver_behavior == Prologue \o <<"sign_geckodriver">>

Plan ==
    CASE wf = "sign"         -> sign_behavior
      [] wf = "sign_and_pkg" -> sign_and_pkg_behavior
      [] wf = "notarize"     -> notarize_behavior
      [] wf = "notarize_1"   -> notarize_1_behavior
      [] wf = "notarize_3"   -> notarize_3_behavior
      [] wf = "geckodriver"  -> geckodriver_behavior

\* the stage the behavior is at
Cur == Plan[pc]

\* the list of records a behavior hands to a stage
StageRecs(s) ==
    IF s = "langpack" THEN LangpackApps
    ELSE IF wf = "notarize_3"
    THEN CASE s \in {"set_pkg", "staple_pkg", "copy_pkg"} -> AllPkgPaths
           [] s = "copy_xpi" -> AllXpiPaths
           [] OTHER -> AllAppPaths
    ELSE CASE s \in {"extract", "map_prep"} -> NonLang
           [] s \in {"resolve", "omnija", "widevine", "sign_app", "verify"} ->
                IF useMap \/ wf = "notarize" THEN Signable ELSE NonLang
           [] OTHER -> IF wf = "notarize" THEN Signable ELSE NonLang

\* ------------------------------------------------------ stages and futures
cfgVars == <<wf, useMap, multi, accounts, all_paths>>

At(s) == st = "run" /\ Cur = s

Awaiting(s) == st = "await" /\ Cur = s

\* the stage returned: the behavior goes on to its next statement
Proceed(s) ==
    /\ res' = [res EXCEPT ![s] = "done"]
    /\ IF pc = Len(Plan)
       THEN st' = "finished" /\ pc' = pc
       ELSE st' = "run" /\ pc' = pc + 1

\* an exception leaves the stage but the behavior catches it and goes on
RaiseSwallowed(s) ==
    /\ res' = [res EXCEPT ![s] = "raised"]
    /\ IF pc = Len(Plan)
       THEN st' = "finished" /\ pc' = pc
       ELSE st' = "run" /\ pc' = pc + 1

\* an exception leaves the stage: no behavior has a try/except, so it leaves
\* the behavior too
Raise(s) ==
    /\ res' = [res EXCEPT ![s] = "raised"]
    /\ st' = "raised"
    /\ pc' = pc

\* the stage returns without awaiting its futures
AwaitMissing(s) ==
    /\ res' = [res EXCEPT ![s] = "done"]
    /\ IF pc = Len(Plan)
       THEN st' = "finished" /\ pc' = pc
       ELSE st' = "run" /\ pc' = pc + 1

\* the stage suspends in ``await raise_future_exceptions(futures)``
Await(s) ==
    /\ res' = [res EXCEPT ![s] = "active"]
    /\ st' = "await"
    /\ pc' = pc

\* The loop of a stage created the futures of ``launched``. When the loop ran
\* to its end the stage awaits them and the event loop runs them (``state``);
\* when the loop raised (bad) they stay scheduled and are never run.
Launch(s, launched, bad, state) ==
    /\ unit' = [unit EXCEPT ![s] = [i \in 0..MaxRecords |->
                   IF i \in launched THEN (IF bad THEN "scheduled" ELSE state)
                   ELSE "idle"]]
    /\ IF bad THEN Raise(s) ELSE Await(s)

\* a synchronous loop went through the records of ``done`` and raised or not
SyncLoop(s, done, bad) ==
    /\ unit' = [unit EXCEPT ![s] = [i \in 0..MaxRecords |->
                   IF i \in done THEN "ok" ELSE "idle"]]
    /\ IF bad THEN Raise(s) ELSE Proceed(s)

\* raise_future_exceptions: every future of the stage is done
AllDone(s) == \A i \in 0..MaxRecords : unit[s][i] \in {"idle", "ok", "failed"}

AnyFailed(s) == \E i \in 0..MaxRecords : unit[s][i] = "failed"

\* a failing unit's exception reaches the stage at once (an await in the loop)
OnUnitFailPropagates(s, i) ==
    /\ unit' = [unit EXCEPT ![s][i] = "failed"]
    /\ Raise(s)

\* the command of a unit fails: the exception is kept in the unit's future
\* (asyncio.ensure_future) until the stage's join looks at it
OnUnitFail(s, i) ==
    /\ unit' = [unit EXCEPT ![s][i] = "failed"]
    /\ UNCHANGED <<pc, st, res>>

ConcurrencyLimit == 2

signing_keychain == "signing.keychain"

default_keychains == <<"login.keychain-db", "System.keychain">>

\* a search list with the signing keychain after the default ones
SearchPathAppended == default_keychains \o <<signing_keychain>>

\* the list ``security list-keychains -s`` is given
SearchPathSet == <<signing_keychain>> \o default_keychains

UnitStart(i) ==
    /\ Awaiting("pkg")
    /\ unit["pkg"][i] = "scheduled"
    /\ Cardinality({j \in 0..MaxRecords : unit["pkg"][j] = "running"}) < ConcurrencyLimit
    /\ unit' = [unit EXCEPT !["pkg"][i] = "running"]
    /\ UNCHANGED <<notWf, cfgVars, app, softlink, pc, st, res, counter, account_of, workdir, keychain, poll_uuids, manifest>>

UnitOk(i) ==
    /\ st = "await"
    /\ unit[Cur][i] = "running"
    /\ unit' = [unit EXCEPT ![Cur][i] = "ok"]
    /\ softlink' = IF Cur = "extract" /\ Suffix(i) = "dmg"
                   THEN softlink \cup {i} ELSE softlink
    /\ workdir' = IF Cur = "extract"
                  THEN [workdir EXCEPT ![app[i].parent_dir] =
                           IF @ = "empty" THEN "extracted" ELSE "mixed"]
                  ELSE workdir
    /\ keychain' = CASE Cur \in {"unlock_1", "unlock_sign", "unlock_2"} ->
                           [keychain EXCEPT !.unlocked = TRUE]
                      [] Cur \in {"keychain_1", "keychain_2"} ->
                           [keychain EXCEPT !.search = SearchPathSet]
                      [] OTHER -> keychain
    /\ UNCHANGED <<poll_uuids, manifest>>
    /\ UNCHANGED <<notWf, cfgVars, app, pc, st, res, counter, account_of>>

UnitFail(i) ==
    /\ st = "await"
    /\ unit[Cur][i] = "running"
    /\ OnUnitFail(Cur, i)
    /\ UNCHANGED <<notWf, cfgVars, app, softlink, counter, account_of, workdir, keychain, poll_uuids, manifest>>

\* ``await raise_future_exceptions(futures)`` returns or raises
JoinStage ==
    /\ st = "await"
    /\ Cur \notin {"extract", "submit", "sign_geckodriver"}
    /\ AllDone(Cur)
    /\ IF AnyFailed(Cur) THEN Raise(Cur) ELSE Proceed(Cur)
    /\ UNCHANGED <<notWf, cfgVars, app, softlink, unit, counter, account_of, workdir, keychain, poll_uuids, manifest>>

\* ------------------------------------------------------------- the stages
SetAttr(done, field) ==
    [i \in DOMAIN app |->
        IF i \in done
        THEN CASE field = "app_path" -> [app[i] EXCEPT !.app_path = TRUE]
               [] field = "pkg_path" -> [app[i] EXCEPT !.pkg_path = TRUE, !.app_path = TRUE]
               [] field = "zip_path" -> [app[i] EXCEPT !.zip_path = TRUE]
               [] field = "notarization_log_path" ->
                      [app[i] EXCEPT !.notarization_log_path = TRUE]
        ELSE app[i]]

\* sign_langpacks, when there are langpacks
SignLangpacks ==
    /\ At("langpack")
    /\ IF LangpackApps = <<>>
       THEN Proceed("langpack") /\ UNCHANGED unit
       ELSE Launch("langpack", {0}, FALSE, "running")
    /\ UNCHANGED <<notWf, cfgVars, app, softlink, counter, account_of, workdir, keychain, poll_uuids, manifest>>

ExtractSuffixes == {"tar.bz2", "tar.gz", "tgz", "dmg"}

\* the loop that leaves the directories as it finds them
RecreateSkipped(dirs) == workdir

\* ``rm(app.parent_dir); makedirs(app.parent_dir)`` for the directories dirs
Recreate(dirs) == [d \in DOMAIN workdir |-> IF d \in dirs THEN "empty" ELSE workdir[d]]

\* extract_all_apps, up to its await
ExtractAllApps ==
    /\ At("extract")
    /\ LET L == StageRecs("extract")
           Bad(i) == ~is_macapp_entitlements(i) /\ Suffix(i) \notin ExtractSuffixes
           p == FirstBad(L, {b \in Range(L) : Bad(b)})
           reached == {i \in (IF p = 0 THEN Range(L) ELSE Before(L, p) \cup {L[p]}) :
                          ~is_macapp_entitlements(i)}
       IN  /\ app' = [i \in DOMAIN app |->
                        IF i \in reached
                        THEN [app[i] EXCEPT !.parent_dir = PosOf(L, i) - 1]
                        ELSE app[i]]
           /\ softlink' = softlink \ reached
           /\ workdir' = Recreate({PosOf(L, i) - 1 : i \in reached})
           /\ Launch("extract", reached \ (IF p = 0 THEN {} ELSE {L[p]}), p # 0, "running")
    /\ UNCHANGED <<notWf, cfgVars, counter, account_of, keychain, poll_uuids, manifest>>

\* extract_all_apps, from its await on: ``app`` is the loop's last record
ExtractAllAppsJoin ==
    /\ Awaiting("extract")
    /\ AllDone("extract")
    /\ LET L == StageRecs("extract")
       IN  IF AnyFailed("extract") \/ L = <<>>
           THEN Raise("extract") /\ UNCHANGED softlink
           ELSE /\ Proceed("extract")
                /\ softlink' = IF Suffix(L[Len(L)]) = "dmg"
                               THEN softlink \ Range(L) ELSE softlink
    /\ UNCHANGED <<notWf, cfgVars, app, unit, counter, account_of, workdir, keychain, poll_uuids, manifest>>

\* unlock_keychain
UnlockKeychain ==
    /\ \E s \in {"unlock_1", "unlock_sign", "unlock_2"} :
          At(s) /\ Launch(s, {0}, FALSE, "running")
    /\ UNCHANGED <<notWf, cfgVars, app, softlink, counter, account_of, workdir, keychain, poll_uuids, manifest>>

\* update_keychain_search_path
UpdateKeychainSearchPath ==
    /\ \E s \in {"keychain_1", "keychain_2"} :
          At(s) /\ Launch(s, {0}, FALSE, "running")
    /\ UNCHANGED <<notWf, cfgVars, app, softlink, counter, account_of, workdir, keychain, poll_uuids, manifest>>

\* sign_geckodriver: the loop comes to its next record, checks it and awaits
\* its codesign command, or has no record left
SignGeckodriver ==
    /\ At("sign_geckodriver")
    /\ LET L == StageRecs("sign_geckodriver")
       IN  IF counter >= Len(L)
           THEN Proceed("sign_geckodriver") /\ UNCHANGED unit
           ELSE \E exists \in BOOLEAN :
                   IF \/ MissingAny(L[counter + 1], {"orig_path", "parent_dir", "artifact_prefix"})
                      \/ ~exists
                   THEN Raise("sign_geckodriver") /\ UNCHANGED unit
                   ELSE /\ unit' = [unit EXCEPT !["sign_geckodriver"][L[counter + 1]] = "running"]
                        /\ Await("sign_geckodriver")
    /\ UNCHANGED <<notWf, cfgVars, app, softlink, counter, account_of, workdir, keychain, poll_uuids, manifest>>

\* sign_geckodriver: the codesign command of the record is over; its failure
\* leaves the loop, otherwise the tar command of the record is awaited
SignGeckodriverTar ==
    /\ Awaiting("sign_geckodriver")
    /\ LET i == StageRecs("sign_geckodriver")[counter + 1]
       IN  /\ unit["sign_geckodriver"][i] \in {"ok", "failed"}
           /\ unit["tar_geckodriver"][i] = "idle"
           /\ IF unit["sign_geckodriver"][i] = "failed"
              THEN Raise("sign_geckodriver") /\ UNCHANGED unit
              ELSE /\ unit' = [unit EXCEPT !["tar_geckodriver"][i] = "running"]
                   /\ UNCHANGED <<pc, st, res>>
    /\ UNCHANGED <<notWf, cfgVars, app, softlink, counter, account_of, workdir, keychain, poll_uuids, manifest>>

\* sign_geckodriver: the tar command of the record is over; its failure
\* leaves the loop, otherwise the loop goes on
SignGeckodriverTarDone ==
    /\ Awaiting("sign_geckodriver")
    /\ LET i == StageRecs("sign_geckodriver")[counter + 1]
       IN  /\ unit["tar_geckodriver"][i] = "running"
           /\ \E ok \in BOOLEAN :
                 IF ok
                 THEN /\ unit' = [unit EXCEPT !["tar_geckodriver"][i] = "ok"]
                      /\ counter' = counter + 1
                      /\ st' = "run"
                      /\ UNCHANGED <<pc, res>>
                 ELSE /\ unit' = [unit EXCEPT !["tar_geckodriver"][i] = "failed"]
                      /\ Raise("sign_geckodriver")
                      /\ UNCHANGED counter
    /\ UNCHANGED <<notWf, cfgVars, app, softlink, account_of, workdir, keychain, poll_uuids, manifest>>

\* sign_all_apps_with_map, up to the map file
MapPrep ==
    /\ At("map_prep")
    /\ \E usable \in BOOLEAN :
          IF usable /\ \E i \in Range(StageRecs("map_prep")) : is_macapp_entitlements(i)
          THEN Proceed("map_prep")
          ELSE Raise("map_prep")
    /\ UNCHANGED <<notWf, cfgVars, app, softlink, unit, counter, account_of, workdir, keychain, poll_uuids, manifest>>

\* set_app_path_and_name raises for record i; ``fails`` are the records whose
\* parent_dir does not hold exactly one .app
SetAppPathBad(i, fails) ==
    Missing(i, "parent_dir") \/ (~app[i].app_path /\ i \in fails)

\* ``for app in all_paths: set_app_path_and_name(app)``
Resolve ==
    /\ At("resolve")
    /\ LET L == StageRecs("resolve")
       IN  \E fails \in SUBSET Range(L) :
              LET Bad(i) == SetAppPathBad(i, fails)
                  p == FirstBad(L, {b \in Range(L) : Bad(b)})
              IN  /\ app' = SetAttr(Before(L, p), "app_path")
                  /\ SyncLoop("resolve", Before(L, p), p # 0)
    /\ UNCHANGED <<notWf, cfgVars, softlink, counter, account_of, workdir, keychain, poll_uuids, manifest>>

\* sign_omnija_with_autograph, sign_widevine_dir
Delegated ==
    /\ \E s \in {"omnija", "widevine"} :
          /\ At(s)
          /\ Launch(s, {i \in Range(StageRecs(s)) :
                          IF s = "omnija"
                          THEN {"autograph_omnija", "omnija"} \cap all_paths[i].formats # {}
                          ELSE {"autograph_widevine", "widevine"} \cap all_paths[i].formats # {}},
                    FALSE, "running")
    /\ UNCHANGED <<notWf, cfgVars, app, softlink, counter, account_of, workdir, keychain, poll_uuids, manifest>>

\* sign_app / sign_app_with_map for every record
SignAllApps ==
    /\ At("sign_app")
    /\ Launch("sign_app", Range(StageRecs("sign_app")), FALSE, "running")
    /\ UNCHANGED <<notWf, cfgVars, app, softlink, counter, account_of, workdir, keychain, poll_uuids, manifest>>

\* verify_app_signature for every record
VerifyAllApps ==
    /\ At("verify")
    /\ Launch("verify", Range(StageRecs("verify")), FALSE, "running")
    /\ UNCHANGED <<notWf, cfgVars, app, softlink, counter, account_of, workdir, keychain, poll_uuids, manifest>>

\* create_pkg_files: the futures wait for the semaphore
CreatePkgFiles ==
    /\ At("pkg")
    /\ LET L == StageRecs("pkg")
       IN  \E fails \in SUBSET Range(L) :
              LET Bad(i) == SetAppPathBad(i, fails)
                  p == FirstBad(L, {b \in Range(L) : Bad(b)})
              IN  /\ app' = SetAttr(Before(L, p), "pkg_path")
                  /\ Launch("pkg", Before(L, p), p # 0, "scheduled")
    /\ UNCHANGED <<notWf, cfgVars, softlink, counter, account_of, workdir, keychain, poll_uuids, manifest>>

\* create_all_notarization_zipfiles
CreateAllNotarizationZipfiles ==
    /\ At("zip")
    /\ LET L == StageRecs("zip")
           Bad(i) == MissingAny(i, {"parent_dir", "app_path", "pkg_path"})
           p == FirstBad(L, {b \in Range(L) : Bad(b)})
       IN  /\ app' = SetAttr(Before(L, p), "zip_path")
           /\ Launch("zip", Before(L, p), p # 0, "running")
    /\ UNCHANGED <<notWf, cfgVars, softlink, counter, account_of, workdir, keychain, poll_uuids, manifest>>

\* create_one_notarization_zipfile
CreateOneNotarizationZipfile ==
    /\ At("onezip")
    /\ LET L == StageRecs("onezip")
           Bad(i) == MissingAny(i, {"app_path", "pkg_path"})
           p == FirstBad(L, {b \in Range(L) : Bad(b)})
       IN  Launch("onezip", IF p = 0 THEN {0} ELSE {}, p # 0, "running")
    /\ UNCHANGED <<notWf, cfgVars, app, softlink, counter, account_of, workdir, keychain, poll_uuids, manifest>>

\* one turn of the loop that submits every record that is left at once
RoundSizeAll(left) == left

\* the submissions of one turn of ``while counter < len(all_paths)``: one per
\* account, until the records run out (``break``)
RoundSize(left) == IF left < accounts THEN left ELSE accounts

\* wrap_notarization_with_sudo: the check of the attributes, then one turn of
\* ``while counter < len(all_paths)``
WrapNotarizationWithSudo ==
    /\ At("submit")
    /\ LET L == StageRecs("submit")
           Bad(i) == MissingAny(i, {"zip_path", "parent_dir"})
           n == RoundSize(Len(L) - counter)
           batch == {L[q] : q \in (counter + 1)..(counter + n)}
       IN  IF res["submit"] = "pending" /\ FirstBad(L, {b \in Range(L) : Bad(b)}) # 0
           THEN Raise("submit") /\ UNCHANGED <<app, unit, counter, account_of>>
           ELSE IF counter >= Len(L)
           THEN Proceed("submit") /\ UNCHANGED <<app, unit, counter, account_of>>
           ELSE /\ app' = SetAttr(batch, "notarization_log_path")
                /\ unit' = [unit EXCEPT !["submit"] = [i \in 0..MaxRecords |->
                               IF i \in batch THEN "running" ELSE @[i]]]
                /\ counter' = counter + n
                /\ account_of' = [i \in DOMAIN account_of |->
                                     IF i \in batch THEN PosOf(L, i) - counter
                                     ELSE account_of[i]]
                /\ Await("submit")
    /\ UNCHANGED <<notWf, cfgVars, softlink, workdir, keychain, poll_uuids, manifest>>

\* an await of one turn that lets the loop go on whatever the futures hold
WrapNotarizationWithSudoJoinAnyway ==
    /\ Awaiting("submit")
    /\ AllDone("submit")
    /\ st' = "run"
    /\ UNCHANGED <<pc, res>>
    /\ UNCHANGED <<notWf, cfgVars, app, softlink, unit, counter, account_of, workdir, keychain, poll_uuids, manifest>>

\* wrap_notarization_with_sudo: the await of one turn
WrapNotarizationWithSudoJoin ==
    /\ Awaiting("submit")
    /\ AllDone("submit")
    /\ IF AnyFailed("submit")
       THEN Raise("submit")
       ELSE st' = "run" /\ UNCHANGED <<pc, res>>
    /\ UNCHANGED <<notWf, cfgVars, app, softlink, unit, counter, account_of, workdir, keychain, poll_uuids, manifest>>

\* notarize_no_sudo: the submission
NotarizeNoSudo ==
    /\ At("submit_one")
    /\ Launch("submit_one", {0}, FALSE, "running")
    /\ UNCHANGED <<notWf, cfgVars, app, softlink, counter, account_of, workdir, keychain, poll_uuids, manifest>>

\* the identifiers the service gave to n requests, in the order of the
\* requests: distinct, ascending or descending
RequestUUIDs(n) ==
    {[k \in 1..n |-> k], [k \in 1..n |-> n + 1 - k]}

\* the units whose response get_uuid_from_log reads
UuidUnits == IF multi THEN StageRecs("uuid") ELSE <<0>>

\* ``uuids[get_uuid_from_log(...)] = ...``: the first response without an
\* identifier, at position p of the list, raises
GetUuids ==
    /\ At("uuid")
    /\ \E p \in 0..Len(UuidUnits) :
          /\ SyncLoop("uuid", Before(UuidUnits, p), p # 0)
          /\ IF p = 0
             THEN \E ids \in RequestUUIDs(Len(UuidUnits)) : poll_uuids' = ids
             ELSE UNCHANGED poll_uuids
    /\ UNCHANGED <<notWf, cfgVars, app, softlink, counter, account_of, workdir, keychain, manifest>>

\* poll_all_notarization_status: one poll_notarization_uuid per identifier
PollAllNotarizationStatus ==
    /\ At("poll")
    /\ Launch("poll", Range(UuidUnits), FALSE, "running")
    /\ UNCHANGED <<notWf, cfgVars, app, softlink, counter, account_of, workdir, keychain, poll_uuids, manifest>>

\* notarize_1_behavior writes uuid_manifest.json
insertion_order(keys) == keys

\* sorted(poll_uuids.keys())
sorted(keys) ==
    CHOOSE l \in [1..Len(keys) -> Range(keys)] :
        /\ Range(l) = Range(keys)
        /\ \A a, b \in 1..Len(keys) : a < b => l[a] <= l[b]

WriteManifest ==
    /\ At("manifest")
    /\ SyncLoop("manifest", {0}, FALSE)
    /\ manifest' = sorted(poll_uuids)
    /\ UNCHANGED <<notWf, cfgVars, app, softlink, counter, account_of, workdir, keychain, poll_uuids>>

\* staple_notarization(all_paths, path_attr)
StapleNotarization ==
    /\ \E s \in {"staple_app", "staple_pkg"} :
          /\ At(s)
          /\ LET L == StageRecs(s)
                 Bad(i) == Missing(i, IF s = "staple_app" THEN "app_path" ELSE "pkg_path")
                 p == FirstBad(L, {b \in Range(L) : Bad(b)})
             IN  Launch(s, Before(L, p), p # 0, "running")
    /\ UNCHANGED <<notWf, cfgVars, app, softlink, counter, account_of, workdir, keychain, poll_uuids, manifest>>

\* _get_tar_create_options accepts the target path of record i
TarSuffixOk(i) == Suffix(i) \in {"tar.gz", "tar.bz2", "dmg"}

\* tar_apps
TarApps ==
    /\ At("tar")
    /\ LET L == StageRecs("tar")
           Bad(i) == MissingAny(i, {"orig_path", "parent_dir", "app_path", "artifact_prefix"})
                     \/ ~TarSuffixOk(i)
           p == FirstBad(L, {b \in Range(L) : Bad(b)})
       IN  Launch("tar", Before(L, p), p # 0, "running")
    /\ UNCHANGED <<notWf, cfgVars, app, softlink, counter, account_of, workdir, keychain, poll_uuids, manifest>>

\* _get_pkg_name_from_tarball accepts the path of record i
PkgSuffixOk(i) == Suffix(i) \in {"tar.gz", "tar.bz2", "dmg", "pkg"}

\* copy_pkgs_to_artifact_dir
CopyPkgsToArtifactDir ==
    /\ At("copy_pkg")
    /\ LET L == StageRecs("copy_pkg")
           Bad(i) == MissingAny(i, {"orig_path", "pkg_path", "artifact_prefix"})
                     \/ ~PkgSuffixOk(i)
           p == FirstBad(L, {b \in Range(L) : Bad(b)})
       IN  SyncLoop("copy_pkg", Before(L, p), p # 0)
    /\ UNCHANGED <<notWf, cfgVars, app, softlink, counter, account_of, workdir, keychain, poll_uuids, manifest>>

\* notarize_3_behavior: ``app.pkg_path = app.orig_path``
SetPkgPaths ==
    /\ At("set_pkg")
    /\ app' = [i \in DOMAIN app |->
                 IF i \in Range(AllPkgPaths) THEN [app[i] EXCEPT !.pkg_path = TRUE] ELSE app[i]]
    /\ SyncLoop("set_pkg", Range(AllPkgPaths), FALSE)
    /\ UNCHANGED <<notWf, cfgVars, softlink, counter, account_of, workdir, keychain, poll_uuids, manifest>>

\* copy_xpis_to_artifact_dir
CopyXpisToArtifactDir ==
    /\ At("copy_xpi")
    /\ SyncLoop("copy_xpi", Range(StageRecs("copy_xpi")), FALSE)
    /\ UNCHANGED <<notWf, cfgVars, app, softlink, counter, account_of, workdir, keychain, poll_uuids, manifest>>

\* ------------------------------------------------------ the specification
\* the batches of a task
Batches == UNION {[1..n -> Kinds] : n \in 0..MaxRecords}

\* the variables of sign_app while another specification runs
SignIdle ==
    /\ topOrder = <<>>
    /\ nest = <<>>
    /\ clearkey = FALSE
    /\ todo = <<>>
    /\ ip = 0
    /\ signSt = "done"

\* the variables of get_uuid_from_log while another specification runs
UuidIdle ==
    /\ readable = FALSE
    /\ contents = <<>>
    /\ outcome = [kind |-> "IScriptError", uuid |-> <<>>]

\* the variables of poll_notarization_uuid while another specification runs
PollIdle ==
    /\ timeout = 0
    /\ start = 0
    /\ now = 0
    /\ polls = 0
    /\ sleeps = 0
    /\ responses = <<>>
    /\ lastCheck = 0
    /\ pollSt = "idle"
    /\ submit_start = 0

\* the variables of the publish path while another specification runs
PathIdle ==
    /\ subpath = <<>>
    /\ derived = "idle"
    /\ target = [kind |-> "none", path |-> <<>>]

\* the variables of the logged commands while another specification runs
LogIdle ==
    /\ passwords = <<>>
    /\ logCall = <<>>
    /\ exec_cmds = <<>>
    /\ log_cmds = <<>>
    /\ logSt = "idle"

\* the variables of the verification while another specification runs
VerifyIdle ==
    /\ verify_mac_signature = TRUE
    /\ with_map = FALSE
    /\ sign_futures = <<>>
    /\ verify_futures = <<>>
    /\ verifySt = "idle"
    /\ archived = FALSE

\* the variables of a command while another specification runs
RetryIdle ==
    /\ command = "none"
    /\ argvs = <<>>
    /\ retrySt = "idle"

\* the variables of create_pkg_files while another specification runs
PkgIdle ==
    /\ concurrency_limit = 2
    /\ pkg = <<>>
    /\ pkgSt = "idle"

\* the variables of the batch paths while another specification runs
BatchIdle ==
    /\ upstreamArtifacts = <<>>
    /\ written = <<>>

\* the variables of set_app_path_and_name while another specification runs
DirIdle ==
    /\ wdir = {}
    /\ has_parent = FALSE
    /\ rec_app_path = <<>>
    /\ rec_app_name = <<>>
    /\ globbed = {}
    /\ found = [kind |-> "none", path |-> <<>>]
    /\ resolved = "idle"
    /\ first_ok = [app_path |-> <<>>, app_name |-> <<>>]
    /\ calls = 0

Init ==
    /\ SignIdle
    /\ UuidIdle
    /\ PollIdle
    /\ PathIdle
    /\ DirIdle
    /\ BatchIdle
    /\ PkgIdle
    /\ RetryIdle
    /\ VerifyIdle
    /\ LogIdle
    /\ wf \in Workflows
    /\ useMap \in (IF wf \in {"notarize_3", "geckodriver"} THEN {FALSE} ELSE BOOLEAN)
    /\ multi \in (IF wf \in {"notarize", "notarize_1"} THEN BOOLEAN ELSE {FALSE})
    /\ accounts \in (IF multi THEN 0..MaxAccounts ELSE {0})
    /\ all_paths \in Batches
    /\ app = [i \in 1..Len(all_paths) |->
                [parent_dir |-> NoDir, app_path |-> FALSE, pkg_path |-> FALSE,
                 zip_path |-> FALSE, notarization_log_path |-> FALSE]]
    /\ softlink = {}
    /\ pc = 1
    /\ st = "run"
    /\ unit = [s \in StageNames |-> [i \in 0..MaxRecords |-> "idle"]]
    /\ res = [s \in StageNames |-> "pending"]
    /\ counter = 0
    /\ account_of = [i \in 1..Len(all_paths) |-> 0]
    /\ workdir = [d \in 0..(Len(all_paths) - 1) |-> "stale"]
    /\ keychain = [unlocked |-> FALSE, search |-> default_keychains]
    /\ poll_uuids = <<>>
    /\ manifest = <<>>

Next ==
    \/ SignLangpacks
    \/ ExtractAllApps
    \/ ExtractAllAppsJoin
    \/ UnlockKeychain
    \/ UpdateKeychainSearchPath
    \/ SignGeckodriver
    \/ SignGeckodriverTar
    \/ SignGeckodriverTarDone
    \/ MapPrep
    \/ Resolve
    \/ Delegated
    \/ SignAllApps
    \/ VerifyAllApps
    \/ CreatePkgFiles
    \/ CreateAllNotarizationZipfiles
    \/ CreateOneNotarizationZipfile
    \/ WrapNotarizationWithSudo
    \/ WrapNotarizationWithSudoJoin
    \/ NotarizeNoSudo
    \/ GetUuids
    \/ PollAllNotarizationStatus
    \/ WriteManifest
    \/ StapleNotarization
    \/ TarApps
    \/ CopyPkgsToArtifactDir
    \/ SetPkgPaths
    \/ CopyXpisToArtifactDir
    \/ JoinStage
    \/ \E i \in 0..MaxRecords : UnitStart(i) \/ UnitOk(i) \/ UnitFail(i)

Spec == Init /\ [][Next]_vars

\* ------------------------------------------------------------------ claims
Started(s) == \E i \in 0..MaxRecords : unit[s][i] # "idle"

Reported(s) == res[s] \in {"done", "raised"}

\* the stages that run one future per record and join them
BatchStages ==
    {"extract", "zip", "omnija", "widevine", "sign_app", "verify", "poll",
     "staple_app", "staple_pkg", "tar", "pkg"}

\* C1: when a concurrent batch stage has reported and the command of one of
\* its units failed, every unit of the stage has run to completion (none is
\* still scheduled or running) and the stage raised; a stage that returned has
\* no failed and no unfinished unit; and a stage that raised after units ran
\* to completion has a failed unit.
C1_BatchRunsToCompletion ==
    \A s \in BatchStages :
        Reported(s) =>
            /\ AnyFailed(s) => AllDone(s) /\ res[s] = "raised"
            /\ res[s] = "done" => AllDone(s) /\ ~AnyFailed(s)
            /\ (res[s] = "raised" /\ \E i \in 0..MaxRecords : unit[s][i] = "ok")
                   => AnyFailed(s)

\* C1's case: stapling raised after one unit failed and its sibling finished
C1_Witness ==
    /\ res["staple_app"] = "raised"
    /\ \E i, j \in 1..MaxRecords : unit["staple_app"][i] = "failed"
                                   /\ unit["staple_app"][j] = "ok"

\* the stage pairs of C2: extraction before signing, signing before
\* verification, verification before package build, package build before
\* submission
OrderedPairs ==
    { <<"extract", "sign_app">>, <<"sign_app", "verify">>, <<"verify", "pkg">>,
      <<"pkg", "submit">>, <<"pkg", "submit_one">> }

\* C2: when a unit of a stage has been started, every stage that precedes it
\* in the workflow (every stage before the last started one) has returned and
\* none of its units is scheduled, running or failed; in particular for the
\* pairs of OrderedPairs.
C2_NoStageOverlap ==
    LET P == Plan
        started == {q \in 1..Len(P) : Started(P[q])}
        last == IF started = {} THEN 0 ELSE CHOOSE q \in started : \A r \in started : r <= q
    IN  /\ \A p \in 1..(last - 1) :
              /\ res[P[p]] = "done"
              /\ \A i \in 0..MaxRecords : unit[P[p]][i] \in {"idle", "ok"}
        /\ \A pr \in OrderedPairs :
              Started(pr[2]) =>
                  /\ res[pr[1]] = "done"
                  /\ \A i \in 0..MaxRecords : unit[pr[1]][i] \in {"idle", "ok"}

\* C2's case: a package build runs and both bundles were signed and verified
C2_Witness ==
    /\ Len(all_paths) = 2
    /\ \E i \in 1..2 : unit["pkg"][i] = "running"
    /\ \A i \in 1..2 : unit["sign_app"][i] = "ok" /\ unit["verify"][i] = "ok"

\* C3: once a stage of a workflow raised, the workflow has failed and no unit
\* of any later stage is ever started.
C3_RaiseAbortsWorkflow ==
    LET P == Plan
    IN  \A p \in 1..Len(P) :
            res[P[p]] = "raised" =>
                /\ st = "raised"
                /\ \A q \in (p + 1)..Len(P) :
                      ~Started(P[q]) /\ res[P[q]] = "pending"

\* C3's case: signing raised in a workflow that has stages left
C3_Witness ==
    /\ wf = "notarize"
    /\ res["sign_app"] = "raised"
    /\ AnyFailed("sign_app")

\* a submission of record i is in flight
InFlight(i) == unit["submit"][i] \in {"scheduled", "running"}

\* C11: wrap_notarization_with_sudo gives the record at position q of its
\* list the account (q - 1) mod N + 1 of its N accounts, and at no time are
\* two submissions in flight as the same account.
C11_RoundRobinAccounts ==
    LET L == StageRecs("submit")
    IN  /\ \A q \in 1..Len(L) :
              unit["submit"][L[q]] # "idle" =>
                  /\ accounts > 0
                  /\ account_of[L[q]] = ((q - 1) % accounts) + 1
        /\ \A i, j \in 1..Len(all_paths) :
              (i # j /\ InFlight(i) /\ InFlight(j)) => account_of[i] # account_of[j]

\* C11's case: more records than accounts, the second turn runs as the
\* account of the first
C11_Witness ==
    LET L == StageRecs("submit")
    IN  /\ Len(L) > accounts
        /\ \E p, q \in 1..Len(L) :
              /\ p < q
              /\ unit["submit"][L[p]] = "ok"
              /\ InFlight(L[q])
              /\ account_of[L[p]] = account_of[L[q]]

\* C15: any two records that have a working directory have different ones,
\* and the directory of a record was removed and created again, empty, before
\* the record's extraction command started: the command runs in an empty
\* directory and leaves nothing but what it extracted.
C15_OwnFreshWorkingDir ==
    /\ \A i, j \in 1..Len(all_paths) :
          (i # j /\ app[i].parent_dir # NoDir /\ app[j].parent_dir # NoDir)
              => app[i].parent_dir # app[j].parent_dir
    /\ \A i \in 1..Len(all_paths) :
          /\ unit["extract"][i] # "idle" => app[i].parent_dir # NoDir
          /\ unit["extract"][i] \in {"scheduled", "running"}
                 => workdir[app[i].parent_dir] = "empty"
          /\ unit["extract"][i] = "ok" => workdir[app[i].parent_dir] = "extracted"

\* C15's case: two records extracted, each into its own directory
C15_Witness ==
    /\ res["extract"] = "done"
    /\ \E i, j \in 1..Len(all_paths) :
          /\ i # j
          /\ unit["extract"][i] = "ok"
          /\ unit["extract"][j] = "ok"

\* the attributes a stage requires of the records it is given
RequiredAttrs ==
    [s \in StageNames |->
        CASE s \in {"resolve", "pkg"} -> {"parent_dir"}
          [] s = "verify" -> {"parent_dir", "app_path"}
          [] s = "zip" -> {"parent_dir", "app_path", "pkg_path"}
          [] s = "onezip" -> {"app_path", "pkg_path"}
          [] s = "submit" -> {"zip_path", "parent_dir"}
          [] s = "staple_app" -> {"app_path"}
          [] s = "staple_pkg" -> {"pkg_path"}
          [] s = "tar" -> {"parent_dir", "app_path"}
          [] s = "copy_pkg" -> {"pkg_path"}
          [] OTHER -> {}]

\* the attribute att of record i is unset ("" or None)
Unset(i, att) ==
    \/ att = "parent_dir" /\ app[i].parent_dir = NoDir
    \/ att = "app_path" /\ app[i].app_path = FALSE
    \/ att = "pkg_path" /\ app[i].pkg_path = FALSE
    \/ att = "zip_path" /\ app[i].zip_path = FALSE

\* C16: a stage that was given a record with a required attribute unset has
\* raised, and has started no command for that record.
C16_MissingAttrFailsFast ==
    \A s \in StageNames :
        (res[s] # "pending" /\ RequiredAttrs[s] # {}) =>
            \A i \in Range(StageRecs(s)) :
                (\E att \in RequiredAttrs[s] : Unset(i, att)) =>
                    /\ res[s] = "raised"
                    /\ unit[s][i] = "idle"
                    /\ unit[s][0] = "idle"

\* C16's case: the archive stage was given a record without a parent_dir
\* after the records before it had their archive command created
C16_Witness ==
    /\ res["tar"] = "raised"
    /\ \E i, j \in Range(StageRecs("tar")) :
          /\ Unset(i, "parent_dir")
          /\ unit["tar"][j] # "idle"

\* the stages C17 names, but for the extraction, which skips the carrier in
\* its own loop
CarrierFreeStages ==
    {"resolve", "omnija", "widevine", "sign_app", "verify", "pkg", "zip", "onezip",
     "submit", "tar", "copy_pkg"}

\* C17: in the sign, sign_and_pkg, notarize and notarize_1 workflows, under
\* both strategies, no stage runs a command for a record tagged
\* macapp_entitlements, and the stages from bundle resolution to package
\* copying are only given the other records.
C17_CarrierExcluded ==
    wf \in {"sign", "sign_and_pkg", "notarize", "notarize_1"} =>
        /\ \A s \in StageNames \ {"langpack"} :
              \A i \in 1..Len(all_paths) :
                  is_macapp_entitlements(i) => unit[s][i] = "idle"
        /\ \A s \in CarrierFreeStages :
              res[s] # "pending" =>
                  \A i \in Range(StageRecs(s)) : ~ is_macapp_entitlements(i)

\* C18: in the notarize workflow an archive or a package is in the artifact
\* directory only when the bundle and the package of every record of the
\* batch have been stapled.
C18_NothingPublishedBeforeStapling ==
    wf = "notarize" =>
        \A i \in Range(StageRecs("tar")) :
            (unit["tar"][i] = "ok" \/ unit["copy_pkg"][i] = "ok") =>
                \A j \in Range(StageRecs("tar")) :
                    /\ unit["staple_app"][j] = "ok"
                    /\ unit["staple_pkg"][j] = "ok"

\* C20: when extract_all_apps has raised, the extraction of every record of
\* the batch with a known suffix, before or after the failing one, was
\* started and has completed.
C20_ExtractFailsAfterAllAttempted ==
    res["extract"] = "raised" =>
        \A i \in Range(StageRecs("extract")) :
            (~ is_macapp_entitlements(i) /\ Suffix(i) \in ExtractSuffixes) =>
                unit["extract"][i] \in {"ok", "failed"}

KeychainWorkflows == {"sign", "sign_and_pkg", "notarize", "notarize_1", "geckodriver"}

\* the signing keychain is unlocked and comes first in the search list
KeychainReady ==
    /\ keychain.unlocked
    /\ Head(keychain.search) = signing_keychain

\* C19: in the workflows that sign with the keychain, when a codesign command
\* of the signing stage has started, the keychain was unlocked and put first
\* in the search list before; when a package build has started, the signing
\* stage is over and the keychain was unlocked and put first in the search
\* list again between the two.
C19_KeychainReadyBeforeSigning ==
    wf \in KeychainWorkflows =>
        /\ (Started("sign_app") \/ Started("sign_geckodriver")) =>
              /\ res["unlock_1"] = "done"
              /\ res["keychain_1"] = "done"
              /\ KeychainReady
        /\ Started("pkg") =>
              /\ res["verify"] = "done"
              /\ res["unlock_2"] = "done"
              /\ res["keychain_2"] = "done"
              /\ PosOf(Plan, "verify") < PosOf(Plan, "unlock_2")
              /\ PosOf(Plan, "unlock_2") < PosOf(Plan, "keychain_2")
              /\ PosOf(Plan, "keychain_2") < PosOf(Plan, "pkg")
              /\ KeychainReady

\* C19's case: a package build runs after the signing stage signed a bundle
C19_Witness ==
    /\ wf = "sign_and_pkg"
    /\ \E i \in 1..Len(all_paths) :
          /\ unit["sign_app"][i] = "ok"
          /\ unit["pkg"][i] = "running"

\* C21: after extract_all_apps returned, no record whose own path ends in
\* .dmg has the link to /Applications left in its working directory.
C21_SoftlinkRemovedForEveryDmg ==
    res["extract"] = "done" =>
        \A i \in Range(StageRecs("extract")) :
            Suffix(i) = "dmg" => i \notin softlink

\* the submission units of the behavior
SubmissionUnits == IF multi THEN Range(StageRecs("submit")) ELSE {0}

\* C22: in notarize_1 the manifest is written only when every submission
\* succeeded and gave an identifier, it lists the identifiers of the
\* submission units in ascending order, no archive and no package is
\* published before it is written, and nothing is polled or stapled.
C22_ManifestAfterSubmitBeforePublish ==
    wf = "notarize_1" =>
        /\ res["manifest"] = "done" =>
              /\ \A u \in SubmissionUnits :
                    /\ unit[IF multi THEN "submit" ELSE "submit_one"][u] = "ok"
                    /\ unit["uuid"][u] = "ok"
              /\ Len(manifest) = Cardinality(SubmissionUnits)
              /\ Range(manifest) = Range(poll_uuids)
              /\ \A a, b \in 1..Len(manifest) : a < b => manifest[a] < manifest[b]
        /\ (Started("tar") \/ Started("copy_pkg")) => res["manifest"] = "done"
        /\ \A s \in {"poll", "staple_app", "staple_pkg"} : ~Started(s) /\ res[s] = "pending"

\* C22's case: the manifest of two submissions whose identifiers came in
\* descending order is written and the archives are being made
C22_Witness ==
    /\ wf = "notarize_1"
    /\ res["manifest"] = "done"
    /\ Len(poll_uuids) = 2
    /\ poll_uuids[1] > poll_uuids[2]
    /\ Started("tar")

TurnOf(q) == (q - 1) \div accounts

\* a submission that was launched is not launched again
LaunchedOnce ==
    \A i \in 1..MaxRecords :
        /\ unit["submit"][i] = "running" => unit'["submit"][i] \in {"running", "ok", "failed"}
        /\ unit["submit"][i] \in {"ok", "failed"} => unit'["submit"][i] = unit["submit"][i]

\* what C27 says of each state of a multi-account submission
SubmissionTurns ==
    (multi /\ accounts >= 1) =>
        LET L == StageRecs("submit")
        IN  /\ \A q \in 1..Len(L) :
                  unit["submit"][L[q]] # "idle" =>
                      /\ account_of[L[q]] - 1 = (q - 1) % accounts
                      /\ \A r \in 1..Len(L) :
                            TurnOf(r) < TurnOf(q) => unit["submit"][L[r]] = "ok"
            /\ Cardinality({i \in Range(L) : InFlight(i)}) <= accounts
            /\ (res["submit"] = "raised" /\ Started("submit")) =>
                  \E q \in 1..Len(L) :
                      /\ unit["submit"][L[q]] = "failed"
                      /\ \A r \in 1..Len(L) :
                            TurnOf(r) > TurnOf(q) => unit["submit"][L[r]] = "idle"
            /\ res["submit"] = "done" => \A i \in Range(L) : unit["submit"][i] = "ok"

\* C27: with N >= 1 accounts, wrap_notarization_with_sudo launches one
\* submission per record and never a second one, the record at 0-based
\* position i as account i mod N, at most N at a time, a turn only after
\* every submission of the turn before it succeeded, and none after a turn
\* that failed.
C27_OneSubmissionPerRecordInTurns == [] SubmissionTurns /\ [][LaunchedOnce]_vars

\* C27's case: one account, the second record is submitted after the first
\* succeeded
C27_Witness ==
    /\ multi
    /\ accounts = 1
    /\ \E i, j \in Range(StageRecs("submit")) :
          /\ unit["submit"][i] = "ok"
          /\ unit["submit"][j] = "running"

\* the formats that are signed by the external signer
DelegatedFormats ==
    {"autograph_langpack", "autograph_omnija", "omnija", "autograph_widevine", "widevine"}

\* the stages that work on bundles
BundleStages ==
    {"extract", "resolve", "sign_app", "verify", "pkg", "zip", "submit", "poll",
     "staple_app", "staple_pkg", "tar", "copy_pkg", "sign_geckodriver", "tar_geckodriver"}

\* no stage that works on bundles has touched record i
Untouched(i) ==
    /\ app[i].parent_dir = NoDir
    /\ \A s \in BundleStages : unit[s][i] = "idle"

StapleOnlyBundleStages == {"extract", "resolve", "staple_app", "tar"}

\* C32: in notarize_3 every record is in exactly one of the three lists its
\* suffix selects, a bundle is archived only after the bundles were stapled, a
\* package is copied only after the packages were stapled, the .xpi records
\* are copied as they are, and the packages and .xpi records are handled
\* whatever the bundle records are: with no bundle record at all no stage
\* that works on bundles raises.
C32_StapleOnlyPathsIndependent ==
    wf = "notarize_3" =>
        /\ \A i \in 1..Len(all_paths) :
              Cardinality({L \in {AllXpiPaths, AllPkgPaths, AllAppPaths} : i \in Range(L)}) = 1
        /\ Started("tar") => res["staple_app"] = "done"
        /\ Started("copy_pkg") => res["staple_pkg"] = "done"
        /\ AllAppPaths = <<>> => \A s \in StapleOnlyBundleStages : res[s] # "raised"

\* C33: extract_all_apps returns when its list holds no record to extract,
\* that is when the list is empty or holds entitlements carriers only.
C33_ExtractNothingIsNoOp ==
    (\A i \in Range(StageRecs("extract")) : is_macapp_entitlements(i))
        => res["extract"] # "raised"

\* C34: the archive stage raises only when a tar command failed or when one
\* of its records was not extracted and resolved; for a record of a suffix
\* the extraction accepts (.tar.gz, .tar.bz2, .tgz, .dmg) it derives a target
\* path whose suffix it can archive.
C34_ExtractableIsArchivable ==
    res["tar"] = "raised" =>
        \/ AnyFailed("tar")
        \/ \E i \in Range(StageRecs("tar")) :
              \/ Suffix(i) \notin ExtractSuffixes
              \/ MissingAny(i, {"orig_path", "parent_dir", "app_path", "artifact_prefix"})

\* The workflows under a scheduler that goes on: every external command ends
\* and the event loop runs a coroutine that can take a step.
SpecLive == Init /\ [][Next]_vars /\ WF_vars(Next)

\* C35: once wrap_notarization_with_sudo has started its loop it ends,
\* by returning or by raising, for every number of accounts and of records.
C35_SubmissionLoopEnds ==
    (res["submit"] = "active") ~> (res["submit"] \in {"done", "raised"})

\* with an account to submit with, the loop of wrap_notarization_with_sudo ends
SubmissionLoopEndsWithAccounts ==
    (res["submit"] = "active" /\ accounts > 0) ~> (res["submit"] \in {"done", "raised"})

\* ================================================================ sign_app
SIGN_DIRS == {"MacOS", "Library"}

\* the directories a bundle may have under Contents/
TopDirNames == {"MacOS", "Library", "Resources", "Frameworks"}

\* the directories under Contents/ of a nested bundle, as listed
InnerDirs == <<"MacOS", "Resources">>

\* the bundle of nesting level k is AppNames[k]; its CFBundleExecutable is ExeNames[k]
AppNames == <<"A.app", "B.app", "C.app", "D.app", "E.app">>
ExeNames == <<"firefox", "updater", "plugin-container", "crashreporter", "minidump">>

\* dir_.endswith(".app")
EndsWithApp(dir_) == dir_ \in Range(AppNames)

Last(path) == path[Len(path)]

\* the nesting level of the bundle at path appdir
LevelOf(appdir) == (Len(appdir) - 1) \div 3 + 1

\* the listing of a directory: its subdirectories, in os.walk's order
Dirs(path) ==
    CASE EndsWithApp(Last(path)) -> <<"Contents">>
      [] Last(path) = "Contents" -> IF Len(path) = 2 THEN topOrder ELSE InnerDirs
      [] Last(path) \in TopDirNames ->
            LET k == Len(path) \div 3
            IN  (IF k <= Len(nest) /\ nest[k] = Last(path) THEN <<AppNames[k + 1]>> ELSE <<>>)
                \o (IF k = 1 /\ Last(path) = "Resources" /\ clearkey
                    THEN <<"gmp-clearkey">> ELSE <<>>)
      [] OTHER -> <<>>

\* the listing of a directory: its files
Files(path) ==
    CASE Last(path) = "Contents"     -> <<"Info.plist">>
      [] Last(path) = "MacOS"        -> <<ExeNames[Len(path) \div 3], "helper">>
      [] Last(path) = "Library"      -> <<"lib">>
      [] Last(path) = "Resources"    -> <<"res">>
      [] Last(path) = "Frameworks"   -> <<"fw">>
      [] Last(path) = "gmp-clearkey" -> <<"libclearkey.dylib">>
      [] OTHER -> <<>>

\* get_bundle_executable
get_bundle_executable(appdir) == ExeNames[LevelOf(appdir)]

\* ``top_dir[app_path_len:].count(".app") > 0``
InInnerApp(app_path, top_dir) ==
    \E j \in (Len(app_path) + 1)..Len(top_dir) : EndsWithApp(top_dir[j])

\* the walk never tells the main executable from the other files
IsMainExecutableNever(file_, app_executable) == FALSE

\* ``file_ == app_executable``
IsMainExecutable(file_, app_executable) == file_ = app_executable

\* the walk never takes a directory for a nested bundle
IsNestedAppNever(dir_) == FALSE

\* ``if dir_.endswith(".app")``: the walk signs the directory as a bundle
IsNestedApp(dir_) == EndsWithApp(dir_)

\* a codesign (or xattr) command of the sign_app call on bundle a
Cmd(c, a, path) == [cmd |-> c, app |-> a, path |-> path]

\* ``for file_ in files``: the per-file signing commands of one directory
FileCmds(app_path, top_dir) ==
    LET signed == SelectSeq(Files(top_dir), LAMBDA file_ :
                      /\ ~InInnerApp(app_path, top_dir)
                      /\ ~IsMainExecutable(file_, get_bundle_executable(app_path)))
    IN  [j \in 1..Len(signed) |-> Cmd("file", app_path, top_dir \o <<signed[j]>>)]

Remove(dirs, idx) == [j \in 1..(Len(dirs) - 1) |-> IF j < idx THEN dirs[j] ELSE dirs[j + 1]]

RECURSIVE sign_app(_)
RECURSIVE Walk(_, _)
RECURSIVE WalkDirs(_, _, _, _)
RECURSIVE DirLoop(_, _, _, _, _)

\* ``for dir_ in dirs`` from the list iterator's position idx on: dirs.remove
\* shortens the list under the iterator, which still moves on by one
DirLoop(app_path, top_dir, dirs, idx, cmds) ==
    IF idx > Len(dirs)
    THEN [dirs |-> dirs, cmds |-> cmds]
    ELSE IF top_dir = app_path \o <<"Contents">> /\ dirs[idx] \notin SIGN_DIRS
    THEN DirLoop(app_path, top_dir, Remove(dirs, idx), idx + 1, cmds)
    ELSE IF IsNestedApp(dirs[idx])
    THEN DirLoop(app_path, top_dir, dirs, idx + 1,
                 cmds \o sign_app(top_dir \o <<dirs[idx]>>))
    ELSE DirLoop(app_path, top_dir, dirs, idx + 1, cmds)

\* os.walk goes down into the directories left in dirs, in order
WalkDirs(app_path, top_dir, dirs, j) ==
    IF j > Len(dirs)
    THEN <<>>
    ELSE Walk(app_path, top_dir \o <<dirs[j]>>)
         \o WalkDirs(app_path, top_dir, dirs, j + 1)

\* one turn of ``for top_dir, dirs, files in os.walk(contents_dir)`` and the
\* turns below it
Walk(app_path, top_dir) ==
    LET loop == DirLoop(app_path, top_dir, Dirs(top_dir), 1, <<>>)
    IN  loop.cmds
        \o (IF top_dir = app_path \o <<"Contents">>
            THEN <<>> ELSE FileCmds(app_path, top_dir))
        \o WalkDirs(app_path, top_dir, loop.dirs, 1)

\* sign_libclearkey
sign_libclearkey(contents_dir, app_path) ==
    IF Len(app_path) = 1 /\ clearkey /\ "Resources" \in Range(topOrder)
    THEN <<Cmd("clearkey", app_path,
               contents_dir \o <<"Resources", "gmp-clearkey", "libclearkey.dylib">>)>>
    ELSE <<>>

\* sign_app: the commands it runs, in order
sign_app(app_path) ==
    <<Cmd("xattr", app_path, app_path)>>
    \o Walk(app_path, app_path \o <<"Contents">>)
    \o sign_libclearkey(app_path \o <<"Contents">>, app_path)
    \o <<Cmd("bundle", app_path, app_path)>>

\* the command sign_app is at completes
CommandOk ==
    /\ signSt = "run"
    /\ ip < Len(todo)
    /\ ip' = ip + 1
    /\ signSt' = IF ip + 1 = Len(todo) THEN "done" ELSE "run"
    /\ UNCHANGED <<notSign, topOrder, nest, clearkey, todo>>

\* the command sign_app is at raises IScriptError (after its retries)
CommandFails ==
    /\ signSt = "run"
    /\ ip < Len(todo)
    /\ signSt' = "raised"
    /\ UNCHANGED <<notSign, topOrder, nest, clearkey, todo, ip>>

\* the listings of Contents/: the orders of the sets of directories with MacOS
TopOrders ==
    {o \in UNION {[1..n -> TopDirNames] : n \in 1..Cardinality(TopDirNames)} :
        /\ "MacOS" \in Range(o)
        /\ \A x, y \in DOMAIN o : x # y => o[x] # o[y]}

\* the chains of nested bundles
Nests(order) ==
    {c \in UNION {[1..n -> {"MacOS", "Library", "Resources"}] : n \in 0..MaxNest} :
        \A k \in DOMAIN c :
            IF k = 1 THEN c[k] \in Range(order) ELSE c[k] \in Range(InnerDirs)}

\* the variables of the workflows while another specification runs
WfIdle ==
    /\ wf = "sign"
    /\ useMap = FALSE
    /\ multi = FALSE
    /\ accounts = 0
    /\ all_paths = <<>>
    /\ app = <<>>
    /\ softlink = {}
    /\ pc = 1
    /\ st = "finished"
    /\ unit = [s \in StageNames |-> [i \in 0..MaxRecords |-> "idle"]]
    /\ res = [s \in StageNames |-> "pending"]
    /\ counter = 0
    /\ account_of = [i \in 1..Len(all_paths) |-> 0]
    /\ workdir = [d \in 0..(Len(all_paths) - 1) |-> "stale"]
    /\ keychain = [unlocked |-> FALSE, search |-> default_keychains]
    /\ poll_uuids = <<>>
    /\ manifest = <<>>

InitSign ==
    /\ WfIdle
    /\ UuidIdle
    /\ PollIdle
    /\ PathIdle
    /\ DirIdle
    /\ BatchIdle
    /\ PkgIdle
    /\ RetryIdle
    /\ VerifyIdle
    /\ LogIdle
    /\ topOrder \in TopOrders
    /\ nest \in Nests(topOrder)
    /\ clearkey \in (IF "Resources" \in Range(topOrder) THEN BOOLEAN ELSE {FALSE})
    /\ todo = sign_app(<<AppNames[1]>>)
    /\ ip = 0
    /\ signSt = "run"

NextSign == CommandOk \/ CommandFails

SpecSign == InitSign /\ [][NextSign]_vars

\* the commands that have completed
Ran == SubSeq(todo, 1, ip)

\* the path of the bundle of nesting level k
RECURSIVE AppPath(_)
AppPath(k) ==
    IF k = 1 THEN <<AppNames[1]>>
    ELSE AppPath(k - 1) \o <<"Contents", nest[k - 1], AppNames[k]>>

\* the nesting levels of the bundles that exist
Levels == 1..(Len(nest) + 1)

\* path b lies inside directory a
Inside(a, b) == Len(a) < Len(b) /\ SubSeq(b, 1, Len(a)) = a

\* C4: whenever the whole-bundle signature of a bundle is applied, every
\* bundle nested below its Contents/MacOS or Contents/Library subtree has had
\* its own whole-bundle signature applied before.
C4_NestedSignedBeforeOuter ==
    \A j \in 1..ip :
        Ran[j].cmd = "bundle" =>
            \A k \in Levels :
                (Inside(Ran[j].path, AppPath(k))
                 /\ AppPath(k)[Len(Ran[j].path) + 2] \in SIGN_DIRS)
                => \E h \in 1..(j - 1) :
                       Ran[h].cmd = "bundle" /\ Ran[h].path = AppPath(k)

\* C4's case: the outer bundle was signed and holds a nested bundle below
\* Contents/MacOS or Contents/Library
C4_Witness ==
    /\ signSt = "done"
    /\ Len(nest) >= 1
    /\ nest[1] \in SIGN_DIRS
    /\ Ran[ip] = Cmd("bundle", AppPath(1), AppPath(1))

\* C5: once the whole-bundle signature of a bundle has been applied, no file
\* and no bundle inside that bundle that was signed before is signed again.
C5_NoSigningInsideSignedBundle ==
    \A i, j \in 1..ip :
        (/\ i < j
         /\ Ran[i].cmd = "bundle"
         /\ Ran[j].cmd \in {"file", "clearkey", "bundle"}
         /\ Inside(Ran[i].path, Ran[j].path))
        => ~ \E h \in 1..(i - 1) : Ran[h].cmd = Ran[j].cmd /\ Ran[h].path = Ran[j].path

\* the principal executable of the bundle of nesting level k
MainExecutable(k) == AppPath(k) \o <<"Contents", "MacOS", ExeNames[k]>>

\* C6: no per-file signing command is ever run on the principal executable
\* of a bundle, and a finished sign_app has signed the bundle as a whole, last.
C6_MainExecutableNotSignedAlone ==
    /\ \A j \in 1..ip :
          Ran[j].cmd \in {"file", "clearkey"} =>
              \A k \in Levels : Ran[j].path # MainExecutable(k)
    /\ signSt = "done" => Ran[ip] = Cmd("bundle", AppPath(1), AppPath(1))

\* C6's case: sign_app finished and signed the file beside the executable
C6_Witness ==
    /\ signSt = "done"
    /\ \E j \in 1..ip :
          Ran[j] = Cmd("file", AppPath(1), AppPath(1) \o <<"Contents", "MacOS", "helper">>)

\* C7: every file the walk of a sign_app call signs on its own lies below
\* Contents/MacOS or Contents/Library of that call's bundle.
C7_WalkStaysInSignDirs ==
    \A j \in 1..ip :
        Ran[j].cmd = "file" => Ran[j].path[Len(Ran[j].app) + 2] \in SIGN_DIRS

(***************************************************************************)
(* get_uuid_from_log.  The response text is a sequence of tokens; a token  *)
(* stands for the characters of its name, so that the substring tests and  *)
(* the regular expression of the code are searches for token patterns.     *)
(***************************************************************************)

\* the tokens a response is made of: the marker "ERROR " (with its space),
\* the throttling code, the prefix of a UUID line, two identifier
\* characters, a line break and a character that is none of these
Tokens == {"ERROR ", "ITMS-10004", "RequestUUID = ", "a", "b", "\n", ":"}

\* the tokens whose characters all match [a-zA-Z0-9-]
IdChars == {"a", "b", "ITMS-10004"}

\* pat in text
Contains(text, pat) ==
    \E p \in 1..(Len(text) - Len(pat) + 1) : SubSeq(text, p, p + Len(pat) - 1) = pat

\* text.splitlines()
RECURSIVE splitlines(_)
splitlines(text) ==
    IF text = <<>>
    THEN <<>>
    ELSE LET brk == {p \in 1..Len(text) : text[p] = "\n"}
         IN  IF brk = {}
             THEN <<text>>
             ELSE <<SubSeq(text, 1, Min(brk) - 1)>>
                      \o splitlines(SubSeq(text, Min(brk) + 1, Len(text)))

\* regex.search(line)["uuid"] for "RequestUUID = (?P<uuid>[a-zA-Z0-9-]+)":
\* the leftmost match, its group as long as it can be; <<>> when no match
regex_search(line) ==
    LET hits == {p \in 1..(Len(line) - 1) :
                    line[p] = "RequestUUID = " /\ line[p + 1] \in IdChars}
    IN  IF hits = {}
        THEN <<>>
        ELSE LET p == Min(hits)
                 stop == {q \in (p + 1)..Len(line) :
                             \A k \in (p + 1)..q : line[k] \in IdChars}
             IN  SubSeq(line, p + 1, CHOOSE q \in stop : \A r \in stop : r <= q)

\* what a call of get_uuid_from_log ends with
Raised(exception) == [kind |-> exception, uuid |-> <<>>]
Returned(uuid) == [kind |-> "return", uuid |-> uuid]

\* the loop over the lines: the first line the expression matches
FirstMatch(text) ==
    LET lines == splitlines(text)
        hit == {i \in 1..Len(lines) : regex_search(lines[i]) # <<>>}
    IN  IF hit = {}
        THEN Raised("IScriptError")
        ELSE Returned(regex_search(lines[Min(hit)]))

\* get_uuid_from_log with the search for the UUID before the error tests
get_uuid_from_log_uuid_first(ok, text) ==
    IF ~ ok
    THEN Raised("IScriptError")
    ELSE IF FirstMatch(text).kind = "return"
    THEN FirstMatch(text)
    ELSE IF Contains(text, <<"ERROR ", "ITMS-10004">>)
    THEN Raised("ThrottledNotarization")
    ELSE IF Contains(text, <<"ERROR ">>)
    THEN Raised("UnknownNotarizationError")
    ELSE Raised("IScriptError")

get_uuid_from_log(ok, text) ==
    IF ~ ok
    THEN Raised("IScriptError")
    ELSE IF Contains(text, <<"ERROR ", "ITMS-10004">>)
    THEN Raised("ThrottledNotarization")
    ELSE IF Contains(text, <<"ERROR ">>)
    THEN Raised("UnknownNotarizationError")
    ELSE FirstMatch(text)

\* the call
GetUuidFromLog ==
    /\ outcome.kind = "none"
    /\ outcome' = get_uuid_from_log(readable, contents)
    /\ UNCHANGED <<notUuid, readable, contents>>

\* the response texts of at most MaxLen tokens
Texts == UNION {[1..n -> Tokens] : n \in 0..MaxLen}

InitUuid ==
    /\ WfIdle
    /\ SignIdle
    /\ PollIdle
    /\ PathIdle
    /\ DirIdle
    /\ BatchIdle
    /\ PkgIdle
    /\ RetryIdle
    /\ VerifyIdle
    /\ LogIdle
    /\ readable \in BOOLEAN
    /\ contents \in Texts
    /\ readable = FALSE => contents = <<>>
    /\ outcome = [kind |-> "none", uuid |-> <<>>]

NextUuid == GetUuidFromLog

SpecUuid == InitUuid /\ [][NextUuid]_vars

\* the response holds the throttling code
HasThrottle ==
    \E p \in 1..(Len(contents) - 1) :
        contents[p] = "ERROR " /\ contents[p + 1] = "ITMS-10004"

\* the response holds an ERROR marker
HasError == \E p \in 1..Len(contents) : contents[p] = "ERROR "

\* a "RequestUUID = <id>" starts at p
UuidAt(p) ==
    /\ p < Len(contents)
    /\ contents[p] = "RequestUUID = "
    /\ contents[p + 1] \in IdChars

HasUuid == \E p \in 1..Len(contents) : UuidAt(p)

\* the <id> of the first "RequestUUID = <id>" of the response
RECURSIVE IdFrom(_)
IdFrom(p) ==
    IF p <= Len(contents) /\ contents[p] \in IdChars
    THEN <<contents[p]>> \o IdFrom(p + 1)
    ELSE <<>>

FirstUuid == IdFrom(1 + Min({p \in 1..Len(contents) : UuidAt(p)}))

\* C8: get_uuid_from_log ends in exactly one of four ways, the errors decided
\* before the UUID is looked for: ThrottledNotarization when the response
\* holds ERROR ITMS-10004, UnknownNotarizationError when it holds another
\* ERROR marker, the <id> of its first "RequestUUID = <id>" when it holds no
\* ERROR marker, and IScriptError when it holds neither or cannot be read.
C8_UuidLogOutcome ==
    outcome.kind # "none" =>
        outcome = CASE ~ readable -> Raised("IScriptError")
                    [] readable /\ HasThrottle -> Raised("ThrottledNotarization")
                    [] readable /\ ~ HasThrottle /\ HasError ->
                           Raised("UnknownNotarizationError")
                    [] readable /\ ~ HasError /\ HasUuid -> Returned(FirstUuid)
                    [] OTHER -> Raised("IScriptError")

\* C8's case: a response with a UUID line and the throttling code was read
C8_Witness ==
    /\ outcome.kind = "ThrottledNotarization"
    /\ HasUuid

(***************************************************************************)
(* poll_notarization_uuid.  The clock counts seconds, as                   *)
(* arrow.utcnow().timestamp does.  A status call is one retry_async call   *)
(* of the altool command followed by the reading of its log.               *)
(***************************************************************************)

\* sleep_time, as poll_all_notarization_status passes it
SleepTime == 15

\* what a status call ends with: the status read from the log, or the
\* IScriptError of a command that failed on each of its attempts
Statuses == {"success", "invalid", "None", "IScriptError"}

\* a deadline counted from the beginning of the submission
TimeoutTimeFromSubmission == submit_start + timeout

\* timeout_time = start + timeout
TimeoutTime == start + timeout

\* the deadline test taken at a clock equal to the deadline as well
DeadlinePassedOrReached(t) == t >= TimeoutTime

\* arrow.utcnow().timestamp > timeout_time
DeadlinePassed(t) == t > TimeoutTime

\* the loop sleeping and polling again after an "invalid"
OnStatusInvalidRetried(status) ==
    CASE status = "success" -> "success"
      [] status = "IScriptError" -> "failed"
      [] OTHER -> "sleep"

\* the loop going on after a "success"
OnStatusNoBreak(status) ==
    CASE status = "invalid" -> "invalid"
      [] status = "IScriptError" -> "failed"
      [] OTHER -> "sleep"

\* a loop that tests the deadline when the status call returns, before it
\* looks at the status
OnStatusDeadlineFirst(status) ==
    IF DeadlinePassed(now') THEN "timeout"
    ELSE CASE status = "success" -> "success"
           [] status = "invalid" -> "invalid"
           [] status = "IScriptError" -> "failed"
           [] OTHER -> "sleep"

\* where the loop goes after a status call
OnStatus(status) ==
    CASE status = "success" -> "success"
      [] status = "invalid" -> "invalid"
      [] status = "IScriptError" -> "failed"
      [] OTHER -> "sleep"

\* one status call, taking d seconds
StatusCall ==
    /\ pollSt = "poll"
    /\ \E d \in 0..MaxPollTime, status \in Statuses :
          /\ now' = now + d
          /\ polls' = polls + 1
          /\ responses' = Append(responses, status)
          /\ pollSt' = OnStatus(status)
    /\ UNCHANGED <<notPoll, timeout, start, sleeps, lastCheck, submit_start>>

\* asyncio.sleep(sleep_time), returning lag seconds late, then the deadline test
Sleep ==
    /\ pollSt = "sleep"
    /\ \E lag \in 0..MaxLag :
          /\ now' = now + SleepTime + lag
          /\ sleeps' = sleeps + 1
          /\ IF DeadlinePassed(now')
             THEN pollSt' = "timeout" /\ lastCheck' = lastCheck
             ELSE pollSt' = "poll" /\ lastCheck' = now'
    /\ UNCHANGED <<notPoll, timeout, start, polls, responses, submit_start>>

InitPoll ==
    /\ WfIdle
    /\ SignIdle
    /\ UuidIdle
    /\ PathIdle
    /\ DirIdle
    /\ BatchIdle
    /\ PkgIdle
    /\ RetryIdle
    /\ VerifyIdle
    /\ LogIdle
    /\ timeout \in 0..MaxTimeout
    /\ submit_start \in 0..MaxStart
    /\ start \in submit_start..MaxStart
    /\ now = start
    /\ polls = 0
    /\ sleeps = 0
    /\ responses = <<>>
    /\ lastCheck = start
    /\ pollSt = "poll"

NextPoll == StatusCall \/ Sleep

SpecPoll == InitPoll /\ [][NextPoll]_vars

\* C9: when the Nth status call is the first to report "success", the call
\* returns after exactly N status calls and N - 1 sleeps of the configured
\* interval, one between each two consecutive status calls, and no status
\* call follows the one that reported "success".
C9_SuccessAfterNPolls ==
    /\ polls = Len(responses)
    /\ \A j \in 1..(polls - 1) : responses[j] = "None"
    /\ (polls >= 1 /\ responses[polls] = "success") => pollSt = "success"
    /\ pollSt = "success" =>
          /\ polls >= 1
          /\ responses[polls] = "success"
          /\ sleeps = polls - 1
          /\ now - start >= sleeps * SleepTime

\* C9's case: the third status call was the first to report "success"
C9_Witness ==
    /\ pollSt = "success"
    /\ polls = 3
    /\ sleeps = 2

\* C10 as stated: TimeoutError is raised at the expiry of the deadline
\* start + timeout, to the second, and not before it.
C10_TimeoutExactlyAtDeadline ==
    pollSt = "timeout" => now >= TimeoutTime /\ now <= TimeoutTime + 1

\* C10: TimeoutError is raised at the first deadline test, taken after a
\* sleep, that finds the clock past start + timeout: never before the
\* deadline has passed, and later than it by at most one status call and
\* one sleep, the previous test having found the deadline not passed.
C10_TimeoutAtFirstTestPastDeadline ==
    /\ lastCheck <= TimeoutTime
    /\ pollSt = "timeout" =>
          /\ now > TimeoutTime
          /\ sleeps = polls
          /\ responses[polls] = "None"
          /\ now - lastCheck <= MaxPollTime + SleepTime + MaxLag

\* C10's case: TimeoutError raised more than a second after the deadline
C10_Witness ==
    /\ pollSt = "timeout"
    /\ now > TimeoutTime + 1

\* C24: a status call that reads "invalid" ends the call with
\* InvalidNotarization at once: no sleep and no status call follows it, and
\* the call does not end as a timeout.
C24_InvalidIsFatalAtOnce ==
    /\ (polls >= 1 /\ responses[polls] = "invalid") =>
          /\ pollSt = "invalid"
          /\ sleeps = polls - 1
    /\ pollSt = "invalid" =>
          /\ polls >= 1
          /\ responses[polls] = "invalid"
    /\ pollSt = "timeout" => \A j \in 1..polls : responses[j] # "invalid"

\* C24's case: the second status call read "invalid"
C24_Witness ==
    /\ pollSt = "invalid"
    /\ polls = 2
    /\ sleeps = 1

\* C25 as stated: the deadline counts from the beginning of the submission,
\* so no deadline test taken later than submit_start + timeout lets the
\* loop go on.
C25_DeadlineFromSubmission ==
    (sleeps >= 1 /\ pollSt = "poll") => lastCheck <= submit_start + timeout

\* C25: the deadline counts from the call of poll_notarization_uuid, the
\* time the submission took before it not included: a deadline test lets
\* the loop go on exactly when the clock is not past start + timeout, and
\* the loop stops polling only with success, an error or TimeoutError.
C25_DeadlineFromPollStart ==
    /\ (sleeps >= 1 /\ pollSt = "poll") => lastCheck <= start + timeout
    /\ pollSt = "timeout" => now > start + timeout
    /\ pollSt \in {"poll", "sleep", "success", "invalid", "failed", "timeout"}
    /\ (sleeps = polls /\ polls >= 1 /\ now > start + timeout) => pollSt = "timeout"

\* C25's case: the submission took time and the loop goes on polling after
\* submit_start + timeout
C25_Witness ==
    /\ start > submit_start
    /\ sleeps >= 1
    /\ pollSt = "poll"
    /\ lastCheck > submit_start + timeout

\* C36: the call never ends, and never sleeps, without a status call made,
\* whatever the timeout; the status of a status call that returned decides
\* before the deadline does: "success" ends the call with success and
\* "invalid" with InvalidNotarization also when the deadline passed during
\* the call; TimeoutError is raised only after a status call that read no
\* final status and the sleep that follows it.
C36_StatusBeforeDeadline ==
    /\ pollSt # "poll" => polls >= 1
    /\ polls >= 1 =>
          /\ responses[polls] = "success" => pollSt = "success"
          /\ responses[polls] = "invalid" => pollSt = "invalid"
    /\ pollSt = "timeout" =>
          /\ polls >= 1
          /\ responses[polls] = "None"
          /\ sleeps = polls

\* C36's case: with timeout 0 the first status call ran past the deadline
\* and read "success"
C36_Witness ==
    /\ timeout = 0
    /\ polls = 1
    /\ now > TimeoutTime
    /\ pollSt = "success"

(***************************************************************************)
(* The publish path of a record.  A path is a sequence of tokens, a token  *)
(* standing for the characters of its name; str.split and str.replace are  *)
(* computed on the tokens.                                                 *)
(***************************************************************************)
KNOWN_ARTIFACT_PREFIXES == <<"public/", "releng/partner/">>

\* the tokens of a path below its prefix: the prefixes again, a directory, a
\* name, the suffixes the functions look for, and the separator
PathTokens == {"public/", "releng/partner/", "dir/", "target", ".dmg", ".tar.gz", ".pkg", "/"}

\* _get_artifact_prefix(subpath), for a subpath that starts with a known prefix
_get_artifact_prefix(path) == path[1]

\* app.orig_path: the subpath below the directory of the upstream task
orig_path == <<"work/cot/task/">> \o subpath

\* config["artifact_dir"] + "/"
artifact_dir == <<"artifacts/">>

\* text.split(sep): the pieces of text between the occurrences of sep
RECURSIVE split(_, _)
split(text, sep) ==
    LET at == {p \in 1..Len(text) : text[p] = sep}
    IN  IF at = {}
        THEN <<text>>
        ELSE <<SubSeq(text, 1, Min(at) - 1)>>
                 \o split(SubSeq(text, Min(at) + 1, Len(text)), sep)

\* text.replace(old, new): every occurrence
replace(text, old, new) == [p \in 1..Len(text) |-> IF text[p] = old THEN new ELSE text[p]]

\* text.endswith(ext)
endswith(text, ext) == text # <<>> /\ text[Len(text)] = ext

\* everything of the original path below its first prefix
AfterPrefix(path, prefix) ==
    SubSeq(path, 1 + Min({p \in 1..Len(path) : path[p] = prefix}), Len(path))

\* orig_path.split(artifact_prefix)[1]
SplitPiece(path, prefix) == split(path, prefix)[2]

\* "{}/{}{}".format(artifact_dir, artifact_prefix, orig_path.split(artifact_prefix)[1])
format_target(orig, prefix) == artifact_dir \o <<prefix>> \o SplitPiece(orig, prefix)

FormatTarget == format_target(orig_path, _get_artifact_prefix(subpath))

PathOf(path) == [kind |-> "path", path |-> path]

PathError == [kind |-> "IScriptError", path |-> <<>>]

\* _get_tar_create_options raises on a path that ends in neither suffix
_get_tar_create_options(path) == endswith(path, ".tar.gz") \/ endswith(path, ".tar.bz2")

\* _get_pkg_name_from_tarball
_get_pkg_name_from_tarball(path) ==
    IF endswith(path, ".tar.gz") THEN PathOf(replace(path, ".tar.gz", ".pkg"))
    ELSE IF endswith(path, ".tar.bz2") THEN PathOf(replace(path, ".tar.bz2", ".pkg"))
    ELSE IF endswith(path, ".dmg") THEN PathOf(replace(path, ".dmg", ".pkg"))
    ELSE IF endswith(path, ".pkg") THEN PathOf(replace(path, ".pkg", ".pkg"))
    ELSE PathError

\* tar_apps: app.target_tar_path, and the tar options taken from it
tar_target(formatted) ==
    LET path == replace(formatted, ".dmg", ".tar.gz")
    IN  IF _get_tar_create_options(path) THEN PathOf(path) ELSE PathError

target_tar_path == tar_target(FormatTarget)

\* copy_pkgs_to_artifact_dir: app.target_pkg_path
target_pkg_path == _get_pkg_name_from_tarball(FormatTarget)

\* copy_xpis_to_artifact_dir: target_xpi_path
target_xpi_path == PathOf(FormatTarget)

TarAppsPath ==
    /\ derived = "none"
    /\ derived' = "tar_apps"
    /\ target' = target_tar_path
    /\ UNCHANGED <<notPath, subpath>>

CopyPkgsPath ==
    /\ derived = "none"
    /\ derived' = "copy_pkgs_to_artifact_dir"
    /\ target' = target_pkg_path
    /\ UNCHANGED <<notPath, subpath>>

CopyXpisPath ==
    /\ derived = "none"
    /\ derived' = "copy_xpis_to_artifact_dir"
    /\ target' = target_xpi_path
    /\ UNCHANGED <<notPath, subpath>>

\* the subpaths of a task: a known prefix and at most MaxSegs tokens
Subpaths ==
    {<<prefix>> \o rest :
        prefix \in Range(KNOWN_ARTIFACT_PREFIXES),
        rest \in UNION {[1..n -> PathTokens] : n \in 1..MaxSegs}}

InitPath ==
    /\ WfIdle
    /\ SignIdle
    /\ UuidIdle
    /\ PollIdle
    /\ DirIdle
    /\ BatchIdle
    /\ PkgIdle
    /\ RetryIdle
    /\ VerifyIdle
    /\ LogIdle
    /\ subpath \in Subpaths
    /\ derived = "none"
    /\ target = [kind |-> "none", path |-> <<>>]

NextPath == TarAppsPath \/ CopyPkgsPath \/ CopyXpisPath

SpecPath == InitPath /\ [][NextPath]_vars

\* the path with its last token, the file suffix, rewritten
WithSuffix(path, new) == [path EXCEPT ![Len(path)] = new]

\* C12: a derived publish path is the artifact root, the prefix and every
\* token that follows the prefix in the original path, in order, only the
\* final suffix rewritten (to .tar.gz by tar_apps when it is .dmg, to .pkg by
\* copy_pkgs_to_artifact_dir), also when the prefix or the suffix occurs more
\* than once in the original path.
C12_PublishPathKeepsSegments ==
    target.kind = "path" =>
        LET whole == artifact_dir \o <<_get_artifact_prefix(subpath)>>
                         \o AfterPrefix(orig_path, _get_artifact_prefix(subpath))
        IN  target.path =
                CASE derived = "tar_apps" ->
                         IF endswith(whole, ".dmg") THEN WithSuffix(whole, ".tar.gz") ELSE whole
                  [] derived = "copy_pkgs_to_artifact_dir" -> WithSuffix(whole, ".pkg")
                  [] OTHER -> whole

(***************************************************************************)
(* set_app_path_and_name.  An entry of parent_dir is its path below        *)
(* parent_dir, a sequence of names.                                        *)
(***************************************************************************)

\* the entries parent_dir may hold: bundles at the top level, one level deep
\* and two levels deep, and a package
DirEntries ==
    { <<"A.app">>, <<"B.app">>, <<"dir", "A.app">>, <<"A.app", "B.app">>,
      <<"dir", "sub", "A.app">>, <<"A.pkg">> }

\* glob of "*.app" (depth 1) or "*/*.app" (depth 2) in a directory
glob(entries, depth) == {e \in entries : Len(e) = depth /\ EndsWithApp(Last(e))}

\* glob of "*.app" only
AppsTopOnly(entries) == glob(entries, 1)

\* apps = glob("{}/*.app") + glob("{}/*/*.app")
Apps(entries) == glob(entries, 1) \cup glob(entries, 2)

UnknownAppDir == [kind |-> "UnknownAppDir", path |-> <<>>]

\* get_app_dir
get_app_dir(entries) ==
    IF Cardinality(Apps(entries)) # 1
    THEN UnknownAppDir
    ELSE PathOf(CHOOSE e \in Apps(entries) : TRUE)

\* ``cached or computed`` that computes again whatever is cached
CachedOrNever(cached, computed) == computed

\* ``cached or computed``
CachedOr(cached, computed) == IF cached # <<>> THEN PathOf(cached) ELSE computed

\* os.path.basename
basename(path) == <<Last(path)>>

\* set_app_path_and_name(app)
SetAppPathAndName ==
    /\ resolved # "idle"
    /\ calls < MaxCalls
    /\ calls' = calls + 1
    /\ IF ~ has_parent
       THEN /\ resolved' = "IScriptError"
            /\ UNCHANGED <<rec_app_path, rec_app_name, globbed, found, first_ok>>
       ELSE LET r == CachedOr(rec_app_path, get_app_dir(wdir))
                listed == rec_app_path = <<>>
            IN  /\ globbed' = IF listed THEN wdir ELSE globbed
                /\ found' = IF listed THEN get_app_dir(wdir) ELSE found
                /\ IF r.kind = "UnknownAppDir"
                   THEN /\ resolved' = "UnknownAppDir"
                        /\ UNCHANGED <<rec_app_path, rec_app_name, first_ok>>
                   ELSE /\ resolved' = "ok"
                        /\ rec_app_path' = r.path
                        /\ rec_app_name' = CachedOr(rec_app_name, PathOf(basename(r.path))).path
                        /\ first_ok' = IF first_ok.app_path = <<>>
                                       THEN [app_path |-> rec_app_path', app_name |-> rec_app_name']
                                       ELSE first_ok
    /\ UNCHANGED <<notDir, wdir, has_parent>>

\* another step of the workflow writes an entry into parent_dir
EntryAppears ==
    /\ resolved # "idle"
    /\ \E e \in DirEntries \ wdir : wdir' = wdir \cup {e}
    /\ UNCHANGED <<notDir, has_parent, rec_app_path, rec_app_name, globbed, found, resolved,
                   first_ok, calls>>

\* another step of the workflow removes an entry of parent_dir
EntryDisappears ==
    /\ resolved # "idle"
    /\ \E e \in wdir : wdir' = wdir \ {e}
    /\ UNCHANGED <<notDir, has_parent, rec_app_path, rec_app_name, globbed, found, resolved,
                   first_ok, calls>>

InitDir ==
    /\ WfIdle
    /\ SignIdle
    /\ UuidIdle
    /\ PollIdle
    /\ PathIdle
    /\ BatchIdle
    /\ PkgIdle
    /\ RetryIdle
    /\ VerifyIdle
    /\ LogIdle
    /\ wdir \in SUBSET DirEntries
    /\ has_parent \in BOOLEAN
    /\ rec_app_path = <<>>
    /\ rec_app_name = <<>>
    /\ globbed = {}
    /\ found = [kind |-> "none", path |-> <<>>]
    /\ resolved = "none"
    /\ first_ok = [app_path |-> <<>>, app_name |-> <<>>]
    /\ calls = 0

NextDir == SetAppPathAndName \/ EntryAppears \/ EntryDisappears

SpecDir == InitDir /\ [][NextDir]_vars

\* the entries named *.app at the top level of a directory or one level deep
AppsWithin(entries) ==
    {e \in entries : Len(e) <= 2 /\ e[Len(e)] \in {"A.app", "B.app"}}

\* C13: get_app_dir returns the bundle when the directory it lists holds
\* exactly one .app entry, the top level and one level deep counted together,
\* and raises UnknownAppDir when it holds none or several; a call of
\* set_app_path_and_name that ended so resolved nothing.
C13_SingleAppDir ==
    /\ found.kind # "none" =>
          IF Cardinality(AppsWithin(globbed)) = 1
          THEN found.kind = "path" /\ AppsWithin(globbed) = {found.path}
          ELSE found.kind = "UnknownAppDir"
    /\ resolved = "UnknownAppDir" => rec_app_path = <<>> /\ rec_app_name = <<>>

\* C13's case: one bundle at the top level and one a level deep, no bundle
\* resolved
C13_Witness ==
    /\ resolved = "UnknownAppDir"
    /\ <<"A.app">> \in globbed
    /\ <<"dir", "A.app">> \in globbed
    /\ Cardinality(AppsWithin(globbed)) = 2

\* C14: once a call of set_app_path_and_name has succeeded, app_path and
\* app_name keep the values of that call and every later call succeeds,
\* whatever parent_dir holds by then.
C14_ResolutionIdempotent ==
    first_ok.app_path # <<>> =>
        /\ rec_app_path = first_ok.app_path
        /\ rec_app_name = first_ok.app_name
        /\ resolved = "ok"

\* C14's case: a second call succeeded on a directory that holds two bundles
C14_Witness ==
    /\ calls >= 2
    /\ resolved = "ok"
    /\ Cardinality(AppsWithin(wdir)) = 2
    /\ globbed # wdir

\* ============================================== the paths of one batch
\* the subpaths the upstream tasks of a batch offer
BatchSubpaths ==
    { <<"public/", "target", ".dmg">>,
      <<"public/", "target", ".tar.gz">>,
      <<"public/", "dir/", "target", ".tar.gz">>,
      <<"releng/partner/", "target", ".tar.gz">> }

TaskIds == {"taskA", "taskB"}

\* get_artifact_path(taskId, subpath, work_dir): work_dir/cot/<taskId>/<subpath>
get_artifact_path(taskId, path) == <<"work/cot/", taskId, "/">> \o path

\* the batches of get_app_paths: distinct (taskId, subpath) pairs
UpstreamBatches ==
    {b \in UNION {[1..n -> [taskId : TaskIds, subpath : BatchSubpaths]] : n \in 1..MaxRecords} :
        \A k, l \in DOMAIN b : k # l => b[k] # b[l]}

Records == DOMAIN upstreamArtifacts

rec_orig_path(k) == get_artifact_path(upstreamArtifacts[k].taskId, upstreamArtifacts[k].subpath)

rec_formatted(k) == format_target(rec_orig_path(k), _get_artifact_prefix(upstreamArtifacts[k].subpath))

PathAttrs == {"parent_dir", "zip_path", "notarization_log_path", "target_tar_path", "target_pkg_path"}

Derive(attr, paths) ==
    /\ attr \notin DOMAIN written
    /\ written' = [a \in DOMAIN written \cup {attr} |-> IF a = attr THEN paths ELSE written[a]]
    /\ UNCHANGED <<notBatch, upstreamArtifacts>>

\* extract_all_apps: app.parent_dir = work_dir/<counter>
BatchParentDirs ==
    Derive("parent_dir", [k \in Records |-> PathOf(<<"work/", k - 1>>)])

\* create_all_notarization_zipfiles: app.zip_path
BatchZipPaths ==
    /\ "parent_dir" \in DOMAIN written
    /\ Derive("zip_path",
              [k \in Records |->
                  PathOf(written["parent_dir"][k].path
                             \o <<"-upload", basename(written["parent_dir"][k].path), ".zip">>)])

\* wrap_notarization_with_sudo: app.notarization_log_path
BatchLogPaths ==
    /\ "parent_dir" \in DOMAIN written
    /\ Derive("notarization_log_path",
              [k \in Records |-> PathOf(written["parent_dir"][k].path \o <<"-notarization.log">>)])

\* tar_apps: app.target_tar_path
BatchTarPaths ==
    Derive("target_tar_path", [k \in Records |-> tar_target(rec_formatted(k))])

\* copy_pkgs_to_artifact_dir: app.target_pkg_path
BatchPkgPaths ==
    Derive("target_pkg_path", [k \in Records |-> _get_pkg_name_from_tarball(rec_formatted(k))])

InitBatch ==
    /\ WfIdle
    /\ SignIdle
    /\ UuidIdle
    /\ PollIdle
    /\ PathIdle
    /\ DirIdle
    /\ PkgIdle
    /\ RetryIdle
    /\ VerifyIdle
    /\ LogIdle
    /\ upstreamArtifacts \in UpstreamBatches
    /\ written = <<>>

NextBatch ==
    \/ BatchParentDirs
    \/ BatchZipPaths
    \/ BatchLogPaths
    \/ BatchTarPaths
    \/ BatchPkgPaths

SpecBatch == InitBatch /\ [][NextBatch]_vars

\* C23: the paths two distinct records of a batch are given for the same
\* attribute (working directory, notarization zip, notarization log, archive
\* target, package target) differ.
C23_PathsPairwiseDistinct ==
    \A attr \in DOMAIN written :
        \A k, l \in Records :
            (k # l /\ written[attr][k].kind = "path" /\ written[attr][l].kind = "path") =>
                written[attr][k].path # written[attr][l].path

\* ============================================== create_pkg_files
Building == {i \in DOMAIN pkg : pkg[i] = "running"}

\* a semaphore that never makes a future wait
SlotAlwaysFree == TRUE

\* asyncio.Semaphore(concurrency_limit): a future may enter while fewer than
\* concurrency_limit hold it
SlotFree == Cardinality(Building) < concurrency_limit

\* create_pkg_files: the loop creates one future per record, up to the first
\* record set_app_path_and_name raises on (bad = 0: none), and awaits them
CreatePkgFilesCall ==
    /\ pkgSt = "call"
    /\ \E bad \in 0..Len(pkg) :
          IF bad = 0
          THEN /\ pkg' = [i \in DOMAIN pkg |-> "scheduled"]
               /\ pkgSt' = "await"
          ELSE /\ pkg' = [i \in DOMAIN pkg |-> IF i < bad THEN "scheduled" ELSE "none"]
               /\ pkgSt' = "raised"
    /\ UNCHANGED <<notPkg, concurrency_limit>>

\* semaphore_wrapper: the future of record i enters the semaphore and starts
\* its pkgbuild command
PkgAcquire(i) ==
    /\ pkgSt = "await"
    /\ i \in DOMAIN pkg
    /\ pkg[i] = "scheduled"
    /\ SlotFree
    /\ pkg' = [pkg EXCEPT ![i] = "running"]
    /\ UNCHANGED <<notPkg, concurrency_limit, pkgSt>>

\* the pkgbuild command of record i ends and its future leaves the semaphore
PkgDone(i) ==
    /\ pkgSt = "await"
    /\ i \in DOMAIN pkg
    /\ pkg[i] = "running"
    /\ \E ok \in BOOLEAN : pkg' = [pkg EXCEPT ![i] = IF ok THEN "ok" ELSE "failed"]
    /\ UNCHANGED <<notPkg, concurrency_limit, pkgSt>>

\* await raise_future_exceptions(futures)
CreatePkgFilesJoin ==
    /\ pkgSt = "await"
    /\ \A i \in DOMAIN pkg : pkg[i] \in {"ok", "failed"}
    /\ pkgSt' = IF \E i \in DOMAIN pkg : pkg[i] = "failed" THEN "raised" ELSE "done"
    /\ UNCHANGED <<notPkg, concurrency_limit, pkg>>

InitPkg ==
    /\ WfIdle
    /\ SignIdle
    /\ UuidIdle
    /\ PollIdle
    /\ PathIdle
    /\ DirIdle
    /\ BatchIdle
    /\ RetryIdle
    /\ VerifyIdle
    /\ LogIdle
    /\ concurrency_limit \in 1..MaxLimit
    /\ pkg \in UNION {[1..n -> {"none"}] : n \in 0..MaxPkgs}
    /\ pkgSt = "call"

NextPkg ==
    \/ CreatePkgFilesCall
    \/ \E i \in 1..MaxPkgs : PkgAcquire(i)
    \/ \E i \in 1..MaxPkgs : PkgDone(i)
    \/ CreatePkgFilesJoin

\* the event loop runs a future that can enter the semaphore, and a pkgbuild
\* command ends
SpecPkg ==
    /\ InitPkg
    /\ [][NextPkg]_vars
    /\ \A i \in 1..MaxPkgs : WF_vars(PkgAcquire(i))
    /\ \A i \in 1..MaxPkgs : WF_vars(PkgDone(i))

\* C28: never more than concurrency_limit pkgbuild commands run at a time,
\* and the package build of every record whose future waits for the
\* semaphore is started later on.
C28_PkgBuildsBoundedAndStarted ==
    /\ [](Cardinality(Building) <= concurrency_limit)
    /\ \A i \in 1..MaxPkgs :
          (pkgSt = "await" /\ i \in DOMAIN pkg /\ pkg[i] = "scheduled")
              ~> (i \in DOMAIN pkg /\ pkg[i] \in {"running", "ok", "failed"})

\* C28's case: a future waits while concurrency_limit builds run
C28_Witness ==
    /\ pkgSt = "await"
    /\ Cardinality(Building) = concurrency_limit
    /\ \E i \in DOMAIN pkg : pkg[i] = "scheduled"

\* ============================================== commands and their retries
\* the call sites of run_command
Commands ==
    { "codesign_file", "codesign_libclearkey", "codesign_bundle", "codesign_geckodriver",
      "altool_notarize_sudo", "altool_notarize", "altool_info", "stapler",
      "tar_extract", "zip", "tar_create", "pkgbuild" }

\* retry_async's attempts when the call gives none
DefaultAttempts == 5

\* the attempts the notarization call sites give retry_async
NotarizationAttempts == 10

\* every call site retried like a submission
AttemptsAllRetried(cmd) == NotarizationAttempts

\* how many times a call site lets its command be invoked: retry_async with
\* its attempts, or a bare run_command
Attempts(cmd) ==
    CASE cmd \in {"altool_notarize_sudo", "altool_info", "stapler"} -> NotarizationAttempts
      [] cmd \in {"codesign_file", "codesign_libclearkey", "codesign_bundle",
                  "codesign_geckodriver", "altool_notarize"} -> DefaultAttempts
      [] OTHER -> 1

\* the argument list the call site gives: args=[cmd] is built once, before
\* retry_async is called
Argv(cmd) == <<cmd, "args">>

\* one invocation of run_command: it returns, or raises IScriptError, which
\* retry_async catches while attempts are left
Invoke ==
    /\ retrySt = "run"
    /\ argvs' = Append(argvs, Argv(command))
    /\ \E ok \in BOOLEAN :
          retrySt' = IF ok THEN "ok"
                     ELSE IF Len(argvs') >= Attempts(command) THEN "raised" ELSE "run"
    /\ UNCHANGED <<notRetry, command>>

InitRetry ==
    /\ WfIdle
    /\ SignIdle
    /\ UuidIdle
    /\ PollIdle
    /\ PathIdle
    /\ DirIdle
    /\ BatchIdle
    /\ PkgIdle
    /\ VerifyIdle
    /\ LogIdle
    /\ command \in Commands
    /\ argvs = <<>>
    /\ retrySt = "run"

NextRetry == Invoke

SpecRetry == InitRetry /\ [][NextRetry]_vars

\* C29: a signing, submission, poll or staple command that failed is invoked
\* again with the same arguments while its attempts are not used up (10 for
\* the multi-account submission, the poll and the staple), and the error
\* leaves the unit when they are; a tar or pkgbuild command is invoked once
\* and its failure leaves the unit at once.
C29_BoundedRetries ==
    LET retried == {"codesign_file", "codesign_libclearkey", "codesign_bundle",
                    "codesign_geckodriver", "altool_notarize_sudo", "altool_notarize",
                    "altool_info", "stapler"}
        once == {"tar_create", "pkgbuild"}
        ten == {"altool_notarize_sudo", "altool_info", "stapler"}
    IN  /\ \A k \in 1..Len(argvs) : argvs[k] = argvs[1]
        /\ command \in once => Len(argvs) <= 1 /\ (Len(argvs) = 1 => retrySt # "run")
        /\ command \in ten =>
              /\ Len(argvs) <= 10
              /\ retrySt = "raised" => Len(argvs) = 10
        /\ command \in retried =>
              /\ Len(argvs) <= Attempts(command)
              /\ Attempts(command) > 1
              /\ retrySt = "raised" => Len(argvs) = Attempts(command)
              /\ (retrySt = "run" /\ Len(argvs) >= 1) => Len(argvs) < Attempts(command)

\* C29's case: a staple command failed nine times and is invoked a tenth time
C29_Witness ==
    /\ command = "stapler"
    /\ Len(argvs) = 10
    /\ retrySt = "ok"

\* ================================= sign_all_apps: signing, then verification
\* the futures of a list that are not done yet
Pending(futures) == {i \in DOMAIN futures : futures[i] \in {"scheduled", "running"}}

\* a join that overlooks the exceptions of its futures
NoneRaised(futures) == FALSE

\* raise_future_exceptions: one future of the list holds an exception
SomeRaised(futures) == \E i \in DOMAIN futures : futures[i] = "failed"

\* sign_app / sign_app_with_map of bundle i ends
SignAppDone(i) ==
    /\ verifySt = "sign"
    /\ i \in DOMAIN sign_futures
    /\ sign_futures[i] = "running"
    /\ \E ok \in BOOLEAN : sign_futures' = [sign_futures EXCEPT ![i] = IF ok THEN "ok" ELSE "failed"]
    /\ UNCHANGED <<notVerify, verify_mac_signature, with_map, verify_futures, verifySt, archived>>

\* ``await raise_future_exceptions(futures)`` after the signing loop, and the
\* loop that creates the futures of verify_app_signature
SignAllAppsVerifyLoop ==
    /\ verifySt = "sign"
    /\ Pending(sign_futures) = {}
    /\ IF SomeRaised(sign_futures)
       THEN verifySt' = "raised" /\ UNCHANGED verify_futures
       ELSE /\ verifySt' = "verify"
            /\ verify_futures' = [i \in DOMAIN sign_futures |-> "running"]
    /\ UNCHANGED <<notVerify, verify_mac_signature, with_map, sign_futures, archived>>

\* verify_app_signature(key_config, app): returns at once when
\* verify_mac_signature is off, else runs codesign -vvv --deep --strict
VerifyAppSignature(i) ==
    /\ verifySt = "verify"
    /\ i \in DOMAIN verify_futures
    /\ verify_futures[i] = "running"
    /\ IF ~verify_mac_signature
       THEN verify_futures' = [verify_futures EXCEPT ![i] = "skipped"]
       ELSE \E ok \in BOOLEAN :
               verify_futures' = [verify_futures EXCEPT ![i] = IF ok THEN "ok" ELSE "failed"]
    /\ UNCHANGED <<notVerify, verify_mac_signature, with_map, sign_futures, verifySt, archived>>

\* ``await raise_future_exceptions(futures)`` after the verification loop
SignAllAppsJoin ==
    /\ verifySt = "verify"
    /\ Pending(verify_futures) = {}
    /\ verifySt' = IF SomeRaised(verify_futures) THEN "raised" ELSE "returned"
    /\ UNCHANGED <<notVerify, verify_mac_signature, with_map, sign_futures, verify_futures, archived>>

\* the statements of the behavior after sign_all_apps: tar_apps,
\* create_pkg_files
AfterSignAllApps ==
    /\ verifySt = "returned"
    /\ ~archived
    /\ archived' = TRUE
    /\ UNCHANGED <<notVerify, verify_mac_signature, with_map, sign_futures, verify_futures, verifySt>>

InitVerify ==
    /\ WfIdle
    /\ SignIdle
    /\ UuidIdle
    /\ PollIdle
    /\ PathIdle
    /\ DirIdle
    /\ BatchIdle
    /\ PkgIdle
    /\ RetryIdle
    /\ LogIdle
    /\ verify_mac_signature \in BOOLEAN
    /\ with_map \in BOOLEAN
    /\ sign_futures \in UNION {[1..n -> {"running"}] : n \in 0..MaxRecords}
    /\ verify_futures = [i \in DOMAIN sign_futures |-> "idle"]
    /\ verifySt = "sign"
    /\ archived = FALSE

NextVerify ==
    \/ \E i \in 1..MaxRecords : SignAppDone(i)
    \/ SignAllAppsVerifyLoop
    \/ \E i \in 1..MaxRecords : VerifyAppSignature(i)
    \/ SignAllAppsJoin
    \/ AfterSignAllApps

SpecVerify == InitVerify /\ [][NextVerify]_vars

\* C30 as stated: the verification of a bundle starts only when every bundle
\* of the batch is signed, every bundle is verified (deep, strict) when
\* sign_all_apps returns, and after a failed verification nothing is archived
\* or packaged.
C30_EveryBundleVerified ==
    /\ \A i \in DOMAIN verify_futures :
          verify_futures[i] # "idle" => \A j \in DOMAIN sign_futures : sign_futures[j] = "ok"
    /\ verifySt = "returned" => \A i \in DOMAIN verify_futures : verify_futures[i] = "ok"
    /\ SomeRaised(verify_futures) => ~archived

\* C30, amended: as stated, where every bundle is verified unless
\* verify_mac_signature is turned off, in which case none is
C30_VerifiedUnlessTurnedOff ==
    /\ \A i \in DOMAIN verify_futures :
          verify_futures[i] # "idle" => \A j \in DOMAIN sign_futures : sign_futures[j] = "ok"
    /\ verifySt = "returned" =>
          \A i \in DOMAIN verify_futures :
              verify_futures[i] = IF verify_mac_signature THEN "ok" ELSE "skipped"
    /\ SomeRaised(verify_futures) => ~archived
    /\ (verifySt = "raised" /\ verify_mac_signature /\ ~SomeRaised(sign_futures))
          => SomeRaised(verify_futures) /\ Pending(verify_futures) = {}
    /\ archived => verifySt = "returned"

\* C30's case: of two signed bundles one failed its verification after the
\* other passed, and the pipeline raised
C30_Witness ==
    /\ verifySt = "raised"
    /\ \A j \in DOMAIN sign_futures : sign_futures[j] = "ok"
    /\ \E i, j \in DOMAIN verify_futures : verify_futures[i] = "failed" /\ verify_futures[j] = "ok"

\* ===================================== the commands handed to the logger
\* A command is a list of arguments; an argument that the code builds as one
\* string from several pieces is the list of the pieces.
Passwords == {"hunter2", "pass word", "********"}

\* shlex.quote(s): s as it is when it holds safe characters only, else in
\* single quotes
shlex_quote(pw) == IF pw = "hunter2" THEN <<pw>> ELSE <<"'", pw, "'">>

\* key_config of run r
key_config(r) ==
    [apple_notarization_account |-> "account@example.com",
     apple_asc_provider |-> "provider",
     apple_notarization_password |-> passwords[r]]

\* wrap_notarization_with_sudo: base_cmdln, the pieces joined by " "
base_cmdln(c, kc) ==
    <<"xcrun", " ", "altool", " ", "--notarize-app", " ", "-f", " ", c.subject, " ",
      "--primary-bundle-id", " ", "\"", c.bundle_id, "\"", " ", "-u", " ",
      kc.apple_notarization_account, " ", "--asc-provider", " ", kc.apple_asc_provider,
      " ", "--password">>

\* wrap_notarization_with_sudo: cmd
sudo_cmd(c, kc) ==
    <<"sudo", "su", c.account, "-c",
      base_cmdln(c, kc) \o <<" ">> \o shlex_quote(kc.apple_notarization_password)>>

\* wrap_notarization_with_sudo: log_cmd
sudo_log_cmd(c, kc) ==
    <<"sudo", "su", c.account, "-c", base_cmdln(c, kc) \o <<" ", "********">>>>

\* notarize_no_sudo: base_cmd
notarize_base_cmd(c, kc) ==
    <<"xcrun", "altool", "--notarize-app", "-f", c.subject, "--primary-bundle-id",
      c.bundle_id, "-u", kc.apple_notarization_account, "--asc-provider",
      kc.apple_asc_provider, "--password">>

\* poll_notarization_uuid: base_cmd
poll_base_cmd(c, kc) ==
    <<"xcrun", "altool", "--notarization-info", c.subject, "-u",
      kc.apple_notarization_account, "--password">>

\* a log_cmd that is the command itself
unmasked(base_cmd, kc) == base_cmd \o <<kc.apple_notarization_password>>

\* ``log_cmd = base_cmd + ["********"]``
masked(base_cmd, kc) == base_cmd \o <<"********">>

\* wrap_notarization_with_sudo builds the command of one record
LogWrapNotarizationWithSudo ==
    /\ logSt = "call"
    /\ logSt' = "wrap_notarization_with_sudo"
    /\ exec_cmds' = [r \in 1..2 |-> sudo_cmd(logCall, key_config(r))]
    /\ log_cmds' = [r \in 1..2 |-> sudo_log_cmd(logCall, key_config(r))]
    /\ UNCHANGED <<notLog, passwords, logCall>>

\* notarize_no_sudo builds its command
LogNotarizeNoSudo ==
    /\ logSt = "call"
    /\ logSt' = "notarize_no_sudo"
    /\ exec_cmds' = [r \in 1..2 |->
                  notarize_base_cmd(logCall, key_config(r))
                      \o <<key_config(r).apple_notarization_password>>]
    /\ log_cmds' = [r \in 1..2 |->
                      masked(notarize_base_cmd(logCall, key_config(r)), key_config(r))]
    /\ UNCHANGED <<notLog, passwords, logCall>>

\* poll_notarization_uuid builds its command
LogPollNotarizationUuid ==
    /\ logSt = "call"
    /\ logSt' = "poll_notarization_uuid"
    /\ exec_cmds' = [r \in 1..2 |->
                  poll_base_cmd(logCall, key_config(r))
                      \o <<key_config(r).apple_notarization_password>>]
    /\ log_cmds' = [r \in 1..2 |->
                      masked(poll_base_cmd(logCall, key_config(r)), key_config(r))]
    /\ UNCHANGED <<notLog, passwords, logCall>>

InitLog ==
    /\ WfIdle
    /\ SignIdle
    /\ UuidIdle
    /\ PollIdle
    /\ PathIdle
    /\ DirIdle
    /\ BatchIdle
    /\ PkgIdle
    /\ RetryIdle
    /\ VerifyIdle
    /\ passwords \in [1..2 -> Passwords]
    /\ logCall \in [account : {"notarizer1", "notarizer2"},
                     subject : {"work/0/app.zip", "uuid-1"},
                     bundle_id : {"org.mozilla.1.0", "org.mozilla.1.1"}]
    /\ exec_cmds = <<>>
    /\ log_cmds = <<>>
    /\ logSt = "call"

NextLog == LogWrapNotarizationWithSudo \/ LogNotarizeNoSudo \/ LogPollNotarizationUuid

SpecLog == InitLog /\ [][NextLog]_vars

\* C37: two runs that differ in the notarization password only hand the
\* same command to the logger, at each of the three call sites; the logged
\* command is the executed one up to the password, and has the mask
\* "********" where the executed one has the password.
C37_LoggedCommandHidesPassword ==
    logSt # "call" =>
        /\ log_cmds[1] = log_cmds[2]
        /\ \A r \in 1..2 :
              /\ Len(log_cmds[r]) = Len(exec_cmds[r])
              /\ \A k \in 1..(Len(exec_cmds[r]) - 1) : log_cmds[r][k] = exec_cmds[r][k]
              /\ IF logSt = "wrap_notarization_with_sudo"
                 THEN LET n == Len(base_cmdln(logCall, key_config(r))) + 1
                      IN  /\ SubSeq(log_cmds[r][5], 1, n) = SubSeq(exec_cmds[r][5], 1, n)
                          /\ SubSeq(log_cmds[r][5], n + 1, Len(log_cmds[r][5])) = <<"********">>
                          /\ SubSeq(exec_cmds[r][5], n + 1, Len(exec_cmds[r][5]))
                                 = shlex_quote(passwords[r])
                 ELSE /\ log_cmds[r][Len(log_cmds[r])] = "********"
                      /\ exec_cmds[r][Len(exec_cmds[r])] = passwords[r]

\* C37's case: the two runs have different passwords, the sudo commands
\* they execute differ
C37_Witness ==
    /\ logSt = "wrap_notarization_with_sudo"
    /\ passwords[1] # passwords[2]
    /\ exec_cmds[1] # exec_cmds[2]

====
